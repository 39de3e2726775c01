-------------------------- MODULE FernetKeysProofs --------------------------
(***************************************************************************)
(* Proofs about FernetKeys: its types, and that living tokens are read     *)
(* and their keys kept, whatever the number of processes, of days a token  *)
(* lives, of keys made and of rotations that die.                          *)
(***************************************************************************)
EXTENDS FernetKeys, Integers, FiniteSetTheorems, WellFoundedInduction, TLAPS

-----------------------------------------------------------------------------
(***************************************************************************)
(* The greatest and the least of a set of names.                           *)
(***************************************************************************)

\* The order of the naturals is a well-founded relation.
LEMMA NatOrder ==
    \E R : IsWellFoundedOn(R, Nat) /\ \A x, y \in Nat : y < x => <<y, x>> \in R
  <1> DEFINE R == OpToRel(<, Nat)
  <1>1. IsWellFoundedOn(R, Nat)
    BY NatLessThanWellFounded
  <1>2. \A x, y \in Nat : y < x => <<y, x>> \in R
    BY DEF OpToRel
  <1> HIDE DEF R
  <1> QED BY <1>1, <1>2

\* A set of naturals has a least member.
LEMMA NatMin ==
  ASSUME NEW T \in SUBSET Nat, T # {}
  PROVE  \E x \in T : \A y \in T : x <= y
  <1>1. PICK R : IsWellFoundedOn(R, Nat) /\ \A x, y \in Nat : y < x => <<y, x>> \in R
    BY NatOrder
  <1>2. PICK x \in T : \A y \in T : ~ (<<y, x>> \in R)
    BY <1>1, WFMin
  <1>3. ASSUME NEW y \in T PROVE x <= y
    <2>1. ~ (y < x)
      BY <1>1, <1>2
    <2> QED BY <2>1
  <1> QED BY <1>3

\* One that is bounded has a greatest.
LEMMA NatMax ==
  ASSUME NEW T \in SUBSET Nat, NEW b \in Nat, T # {}, \A x \in T : x <= b
  PROVE  \E x \in T : \A y \in T : y <= x
  <1> DEFINE D == {d \in Nat : \E x \in T : d + x = b}
  <1>1. D \in SUBSET Nat /\ D # {}
    <2>1. PICK x \in T : x <= b
      OBVIOUS
    <2>2. b - x \in Nat /\ (b - x) + x = b
      BY <2>1
    <2>3. b - x \in D
      BY <2>2
    <2> QED BY <2>3
  <1>2. PICK d \in D : \A e \in D : d <= e
    <2> HIDE DEF D
    <2> QED BY <1>1, NatMin
  <1>3. PICK x \in T : d + x = b
    BY <1>2
  <1>4. ASSUME NEW y \in T PROVE y <= x
    <2>1. b - y \in Nat /\ (b - y) + y = b
      OBVIOUS
    <2>2. b - y \in D
      BY <2>1
    <2>3. d <= b - y
      BY <1>2, <2>2
    <2> QED BY <1>3, <2>3
  <1> QED BY <1>4

\* Max and Min of a set of names are its greatest and its least member.
LEMMA MaxOfNames ==
  ASSUME NEW T \in SUBSET Names, T # {}
  PROVE  Max(T) \in T /\ \A y \in T : y <= Max(T)
  <1>1. MaxKeys + MaxDeaths \in Nat
    BY FernetAssumption
  <1> DEFINE b == MaxKeys + MaxDeaths
  <1>2. \E x \in T : \A y \in T : y <= x
    <2>1. T \in SUBSET Nat /\ b \in Nat /\ \A x \in T : x <= b
      BY <1>1 DEF Names
    <2> HIDE DEF b
    <2> QED BY <2>1, NatMax
  <1>3. \E x \in T : \A y \in T : x >= y
    BY <1>1, <1>2 DEF Names
  <1>4. Max(T) \in T /\ \A y \in T : Max(T) >= y
    BY <1>3 DEF Max
  <1> QED BY <1>1, <1>4 DEF Names

LEMMA MinOfNames ==
  ASSUME NEW T \in SUBSET Names, T # {}
  PROVE  Min(T) \in T /\ \A y \in T : Min(T) <= y
  <1>1. MaxKeys + MaxDeaths \in Nat
    BY FernetAssumption
  <1>2. \E x \in T : \A y \in T : x <= y
    BY <1>1, NatMin DEF Names
  <1> QED BY <1>2 DEF Min

-----------------------------------------------------------------------------
(***************************************************************************)
(* The inductive invariant.  Top is the number of the primary key.  A load *)
(* may be late by one rotation: it lists under day d and ends under d + 1. *)
(***************************************************************************)
Top == day + 1
Rotating == job \in {"renamed", "opened", "created", "purged"}

\* Files from some number up to Top, without a gap; those of the last two days among them.
Numbers ==
    /\ Top \in Names
    /\ \E lo \in 1..Top :
          /\ \A n \in Names \ {0} : repo[n] # None <=> lo <= n /\ n <= Top
          /\ day = 0 \/ lo <= day

\* Each promotion has used up a key that was made or a death.
FilesInv ==
    /\ Numbers
    /\ day + (IF repo[0] # None THEN 1 ELSE 0)
          <= made + deaths - (IF job \in {"init", "opened"} THEN 0 ELSE 1)
    /\ job \in {"init", "opened"} => repo[0] = Empty
    /\ job = "renamed" => repo[0] = None
    /\ job \in {"initialized", "created"} => repo[0] \in Keys
    /\ job \in {"renamed", "opened"} => made < MaxKeys
    /\ job = "init" => made + 1 < MaxKeys

ReadFailed(p) == todo[p] = {} /\ got[p] = NoKeys
Has(p, n) == IF n \in todo[p] THEN repo[n] # None ELSE got[p][n] = repo[n]

\* The numbered files a load lists.
HasNumbered(p) ==
    \A n \in Names : 0 < n /\ n <= began[p] + 1 /\ repo[n] # None => Has(p, n)

\* A load that began when no rotation was under way: nothing has changed since, or an
\* init has begun.
CalmLoad(p) ==
    calm[p] /\ began[p] = day =>
       /\ ~ Rotating
       /\ \/ torn[p] /\ ~ current[p]
          \/ job = "idle" /\ \A n \in Names : Has(p, n)

\* What a load has read in file 0: the staged key, or, when it was promoted since, the
\* primary one.  It may also be a key that a failed rotation removed, or anything when it
\* began beside a rotation.
Staged(p) ==
    ~ torn[p] =>
       \/ ReadFailed(p)
       \/ 0 \in todo[p]
       \/ got[p][0] \in {repo[IF began[p] = day THEN 0 ELSE Top], Empty}
       \/ began[p] = day /\ repo[0] = None /\ job = "idle"
       \/ /\ began[p] = day /\ ~ calm[p] /\ ~ reloaded[p]
          /\ job \notin {"init", "initialized"}

LoadInv(p) ==
    Loading(p) =>
    /\ began[p] <= day
    /\ began[p] < day => ~ reloaded[p]
    /\ ~ torn[p] => day <= began[p] + 1
    /\ \A n \in Names : n \in todo[p] \/ got[p][n] # None => n <= began[p] + 1
    /\ ReadFailed(p) \/ HasNumbered(p)
    /\ CalmLoad(p)
    /\ Staged(p)

\* What a process that missed nothing knows.
KnownInv(p) ==
    Running(p) /\ ~ missed[p] =>
    /\ \A n \in Names \ {0} : repo[n] \in Keys => repo[n] \in keys[p]
    /\ \E n \in {day, Top} : n # 0 /\ repo[n] = primary[p] /\ (current[p] => n = Top)
    /\ current[p] => job # "init" /\ \A n \in Names \ {0} : repo[n] # Empty
    /\ current[p] /\ reloaded[p] /\ repo[0] \in Keys => repo[0] \in keys[p]

RunInv(p) ==
    /\ Running(p) => primary[p] \in keys[p]
    /\ reloaded[p] => ~ Rotating
    /\ current[p] => Running(p)
    /\ ~ Loading(p) => todo[p] = {}

ProcInv(p) == LoadInv(p) /\ KnownInv(p) /\ RunInv(p)

\* The keys of living tokens are in files that are not about to be purged.
TokensInv ==
    \A token \in tokens :
        /\ token.day <= day /\ day <= token.day + Life
        /\ \E n \in Names \ {0} : token.day <= n /\ repo[n] = token.key

IndInv == TypeOK /\ FilesInv /\ (\A p \in Procs : ProcInv(p)) /\ TokensInv

LEMMA Constants ==
    /\ MaxKeys \in Nat /\ 2 <= MaxKeys /\ MaxDeaths \in Nat /\ Days \in Nat /\ 1 <= Days
    /\ Life \in Nat /\ Life < Days
    /\ Names \subseteq Nat /\ 0 \in Names /\ 1 \in Names /\ 2 \in Names
    /\ Keys \subseteq Nat /\ 1 \in Keys /\ 2 \in Keys
    /\ None = 0 /\ None \notin Keys /\ Empty \notin Keys /\ Empty # None
  BY FernetAssumption DEF Names, Keys, None, Empty

LEMMA InitInv == Init => IndInv
  <1> SUFFICES ASSUME Init PROVE IndInv
    OBVIOUS
  <1> USE Constants
  <1>1. NoKeys \in [Names -> Keys \cup {None, Empty}] /\ \A n \in Names : NoKeys[n] = None
    BY DEF NoKeys
  <1>2. /\ repo \in [Names -> Keys \cup {None, Empty}]
        /\ repo[0] = 2 /\ repo[1] = 1 /\ \A n \in Names \ {0, 1} : repo[n] = None
    BY <1>1 DEF Init
  <1>3. made \in 0..MaxKeys /\ deaths \in 0..MaxDeaths
    BY DEF Init
  <1>4. TypeOK
    BY <1>1, <1>2, <1>3 DEF TypeOK, Init
  <1>5. FilesInv
    <2>1. \A n \in Names \ {0} : repo[n] # None <=> 1 <= n /\ n <= Top
      BY <1>2 DEF Init, Top
    <2> QED BY <1>2, <2>1 DEF FilesInv, Numbers, Init, Top
  <1>6. ASSUME NEW p \in Procs PROVE ProcInv(p)
    BY DEF Init, ProcInv, LoadInv, KnownInv, RunInv, Loading, Running
  <1>7. TokensInv
    BY DEF Init, TokensInv
  <1> QED BY <1>4, <1>5, <1>6, <1>7 DEF IndInv

-----------------------------------------------------------------------------
(***************************************************************************)
(* The processes.                                                          *)
(***************************************************************************)

\* A step of another process.
LEMMA OtherProcs ==
  ASSUME NEW q \in Procs, ProcInv(q), UNCHANGED <<repo, job, day>>,
         pc'[q] = pc[q], todo'[q] = todo[q], got'[q] = got[q], reloaded'[q] = reloaded[q],
         began'[q] = began[q], calm'[q] = calm[q], torn'[q] = torn[q],
         keys'[q] = keys[q], primary'[q] = primary[q],
         current'[q] = current[q], missed'[q] = missed[q]
  PROVE  ProcInv(q)'
  <1> USE DEF ProcInv, Loading, Running
  <1>1. LoadInv(q)'
    <2>1. HasNumbered(q) => HasNumbered(q)'
      BY DEF HasNumbered, Has
    <2>2. CalmLoad(q) => CalmLoad(q)'
      BY DEF CalmLoad, Has, Rotating
    <2>3. Staged(q) => Staged(q)'
      BY DEF Staged, ReadFailed, Top
    <2> QED BY <2>1, <2>2, <2>3 DEF LoadInv, ReadFailed
  <1>2. KnownInv(q)'
    BY DEF KnownInv, Top
  <1>3. RunInv(q)'
    BY DEF RunInv, Rotating
  <1> QED BY <1>1, <1>2, <1>3

\* A step of process p, which leaves the repository and the other processes alone.
LEMMA ProcStep ==
  ASSUME IndInv, NEW p \in Procs, TypeOK', UNCHANGED repoVars, ProcInv(p)', TokensInv',
         \A q \in Procs \ {p} :
             /\ pc'[q] = pc[q] /\ todo'[q] = todo[q] /\ got'[q] = got[q]
             /\ reloaded'[q] = reloaded[q] /\ began'[q] = began[q] /\ calm'[q] = calm[q]
             /\ torn'[q] = torn[q] /\ keys'[q] = keys[q] /\ primary'[q] = primary[q]
             /\ current'[q] = current[q] /\ missed'[q] = missed[q]
  PROVE  IndInv'
  <1>1. FilesInv'
    BY DEF IndInv, FilesInv, Numbers, repoVars, Top
  <1>2. ASSUME NEW q \in Procs \ {p} PROVE ProcInv(q)'
    BY <1>2, OtherProcs DEF IndInv, repoVars
  <1> QED BY <1>1, <1>2 DEF IndInv

LEMMA SameTokens ==
  ASSUME TokensInv, UNCHANGED <<repo, day, tokens>>
  PROVE  TokensInv'
  BY DEF TokensInv

LEMMA ListStep == ASSUME IndInv, NEW p \in Procs, List(p) PROVE IndInv'
  <1> USE Constants
  <1>0. TypeOK /\ ProcInv(p) /\ FilesInv
    BY DEF IndInv
  <1>1. NoKeys \in [Names -> Keys \cup {None, Empty}] /\ \A n \in Names : NoKeys[n] = None
    BY DEF NoKeys
  <1>2. TypeOK'
    BY <1>0, <1>1 DEF TypeOK, List, repoVars, Files
  <1>3. ProcInv(p)'
    <2>1. /\ todo'[p] = Files /\ got'[p] = NoKeys /\ began'[p] = day
          /\ calm'[p] = (job = "idle") /\ torn'[p] = FALSE
          /\ UNCHANGED <<repo, job, day, keys, primary, reloaded, current, missed>>
      BY <1>0 DEF TypeOK, List, repoVars
    <2>2. \A n \in Names : Has(p, n)'
      BY <1>1, <2>1 DEF Has, Files
    <2>3. \A n \in Files : n <= Top
      <3>1. \A n \in Names \ {0} : repo[n] # None => n <= Top
        BY <1>0 DEF FilesInv, Numbers
      <3>2. 0 <= Top
        BY <1>0 DEF Top, TypeOK
      <3> QED BY <3>1, <3>2 DEF Files
    <2>4. LoadInv(p)'
      <3>1. HasNumbered(p)'
        BY <2>2 DEF HasNumbered
      <3>2. CalmLoad(p)'
        BY <2>1, <2>2 DEF CalmLoad, Rotating
      <3>3. Staged(p)'
        BY <1>1, <2>1 DEF Staged, Files
      <3>4. began'[p] <= day' /\ day' <= began'[p] + 1 /\ ~ (began'[p] < day')
        BY <1>0, <2>1 DEF TypeOK
      <3>5. \A n \in Names : n \in todo'[p] \/ got'[p][n] # None => n <= began'[p] + 1
        BY <1>1, <2>1, <2>3 DEF Top
      <3> QED BY <3>1, <3>2, <3>3, <3>4, <3>5 DEF LoadInv
    <2>5. /\ ~ Loading(p) /\ Loading(p)' /\ Running(p)' = Running(p)
      BY <1>0 DEF TypeOK, List, Loading, Running
    <2>6. KnownInv(p)'
      BY <1>0, <2>1, <2>5 DEF ProcInv, KnownInv, Top
    <2>7. RunInv(p)'
      BY <1>0, <2>1, <2>5 DEF ProcInv, RunInv, Rotating
    <2> QED BY <2>4, <2>6, <2>7 DEF ProcInv
  <1>4. TokensInv'
    BY SameTokens DEF IndInv, List, repoVars
  <1> QED BY <1>0, <1>2, <1>3, <1>4, ProcStep DEF TypeOK, List

LEMMA ReadStep == ASSUME IndInv, NEW p \in Procs, Read(p) PROVE IndInv'
  <1> USE Constants
  <1>0. TypeOK /\ ProcInv(p)
    BY DEF IndInv
  <1>1. PICK part \in {todo[p] \cap {0}, todo[p] \ {0}} \ {{}} :
           /\ todo' = [todo EXCEPT ![p] = @ \ part]
           /\ got' = [got EXCEPT ![p] = [n \in Names |-> IF n \in part THEN repo[n] ELSE @[n]]]
           /\ torn' = [torn EXCEPT ![p] = @ \/ (0 \in part /\ began[p] # day)]
           /\ UNCHANGED <<repoVars, pc, keys, primary, reloaded, began, calm, current, missed,
                          tokens>>
    BY DEF Read
  <1>2. part \subseteq todo[p] /\ part # {} /\ todo[p] \subseteq Names
    BY <1>0 DEF TypeOK
  <1>3. /\ todo'[p] = todo[p] \ part
        /\ \A n \in Names : got'[p][n] = IF n \in part THEN repo[n] ELSE got[p][n]
        /\ torn'[p] = (torn[p] \/ (0 \in part /\ began[p] # day))
    BY <1>0, <1>1 DEF TypeOK
  <1>4. TypeOK'
    <2>1. [n \in Names |-> IF n \in part THEN repo[n] ELSE got[p][n]]
             \in [Names -> Keys \cup {None, Empty}]
      BY <1>0 DEF TypeOK
    <2>2. got' \in [Procs -> [Names -> Keys \cup {None, Empty}]]
      BY <1>0, <1>1, <2>1 DEF TypeOK
    <2>3. todo' \in [Procs -> SUBSET Names]
      BY <1>0, <1>1, <1>2 DEF TypeOK
    <2>4. torn' \in [Procs -> BOOLEAN]
      <3>1. (torn[p] \/ (0 \in part /\ began[p] # day)) \in BOOLEAN
        BY <1>0 DEF TypeOK
      <3> QED BY <1>0, <1>1, <3>1 DEF TypeOK
    <2> QED BY <1>0, <1>1, <2>2, <2>3, <2>4 DEF TypeOK, repoVars
  <1>5. Loading(p) /\ ~ ReadFailed(p)
    BY <1>0, <1>2 DEF ProcInv, RunInv, ReadFailed
  <1>6. ProcInv(p)'
    <2>1. \A n \in Names : Has(p, n) => Has(p, n)'
      BY <1>1, <1>2, <1>3 DEF Has, repoVars
    <2>2. HasNumbered(p)'
      BY <1>0, <1>1, <1>5, <2>1 DEF ProcInv, LoadInv, HasNumbered, repoVars
    <2>3. CalmLoad(p)'
      BY <1>0, <1>1, <1>3, <1>5, <2>1 DEF ProcInv, LoadInv, CalmLoad, Rotating, repoVars
    <2>4. Staged(p)'
      <3> SUFFICES ASSUME ~ torn'[p] PROVE Staged(p)'
        BY DEF Staged
      <3>1. CASE 0 \in part
        BY <1>1, <1>3, <3>1 DEF Staged, Top, repoVars
      <3>2. CASE 0 \notin part
        BY <1>0, <1>1, <1>3, <1>5, <3>2 DEF ProcInv, LoadInv, Staged, Top, repoVars
      <3> QED BY <3>1, <3>2
    <2>5. \A n \in Names : n \in todo'[p] \/ got'[p][n] # None => n <= began'[p] + 1
      BY <1>0, <1>1, <1>2, <1>3, <1>5 DEF ProcInv, LoadInv
    <2>6. LoadInv(p)'
      BY <1>0, <1>1, <1>3, <1>5, <2>2, <2>3, <2>4, <2>5 DEF ProcInv, LoadInv, repoVars
    <2>7. KnownInv(p)'
      BY <1>0, <1>1 DEF ProcInv, KnownInv, Running, Top, repoVars
    <2>8. RunInv(p)'
      BY <1>0, <1>1, <1>3, <1>5 DEF ProcInv, RunInv, Running, Loading, Rotating, repoVars
    <2> QED BY <2>6, <2>7, <2>8 DEF ProcInv
  <1>7. TokensInv'
    BY <1>1, SameTokens DEF IndInv, repoVars
  <1> QED BY <1>0, <1>1, <1>4, <1>6, <1>7, ProcStep DEF TypeOK

LEMMA ReadFailsStep == ASSUME IndInv, NEW p \in Procs, ReadFails(p) PROVE IndInv'
  <1> USE Constants
  <1>0. TypeOK /\ ProcInv(p)
    BY DEF IndInv
  <1>1. NoKeys \in [Names -> Keys \cup {None, Empty}] /\ \A n \in Names : NoKeys[n] = None
    BY DEF NoKeys
  <1>2. PICK gone \in todo[p] : gone # 0 /\ repo[gone] = None
    BY DEF ReadFails
  <1>3. /\ todo'[p] = {} /\ got'[p] = NoKeys
        /\ UNCHANGED <<repoVars, pc, keys, primary, reloaded, began, calm, torn, current,
                       missed, tokens>>
    BY <1>0 DEF TypeOK, ReadFails
  <1>4. TypeOK'
    BY <1>0, <1>1 DEF TypeOK, ReadFails, repoVars
  <1>5. Loading(p)
    BY <1>0, <1>2 DEF ProcInv, RunInv
  <1>6. ProcInv(p)'
    <2>1. gone \in Names /\ ~ Has(p, gone)
      BY <1>0, <1>2 DEF Has, TypeOK
    <2>2. ReadFailed(p)'
      BY <1>3 DEF ReadFailed
    <2>3. CalmLoad(p)'
      BY <1>0, <1>3, <1>5, <2>1 DEF ProcInv, LoadInv, CalmLoad, Rotating, repoVars
    <2>4. Staged(p)'
      BY <2>2 DEF Staged
    <2>5. LoadInv(p)'
      BY <1>0, <1>1, <1>3, <1>5, <2>2, <2>3, <2>4 DEF ProcInv, LoadInv, repoVars
    <2>6. KnownInv(p)'
      BY <1>0, <1>3 DEF ProcInv, KnownInv, Running, Top, repoVars
    <2>7. RunInv(p)'
      BY <1>0, <1>3 DEF ProcInv, RunInv, Running, Loading, Rotating, repoVars
    <2> QED BY <2>5, <2>6, <2>7 DEF ProcInv
  <1>7. TokensInv'
    BY <1>3, SameTokens DEF IndInv, repoVars
  <1> QED BY <1>0, <1>3, <1>4, <1>6, <1>7, ProcStep DEF TypeOK, ReadFails

\* What a load that ends has read.
LEMMA WhatWasRead ==
  ASSUME IndInv, NEW p \in Procs, Loading(p), todo[p] = {}, Loaded(p) # {}
  PROVE  /\ \A n \in Names : got[p][n] # None => n <= began[p] + 1 /\ got[p][n] \in Loaded(p)
         /\ \A n \in Names : 0 < n /\ n <= began[p] + 1 /\ repo[n] # None => got[p][n] = repo[n]
         /\ ~ ReadFailed(p)
  <1> USE Constants
  <1>0. LoadInv(p) /\ TypeOK
    BY DEF IndInv, ProcInv
  <1>1. ~ ReadFailed(p)
    BY DEF ReadFailed, Loaded, NoKeys
  <1>2. HasNumbered(p)
    BY <1>0, <1>1 DEF LoadInv
  <1>3. \A n \in Names : got[p][n] # None => n <= began[p] + 1 /\ got[p][n] \in Loaded(p)
    BY <1>0 DEF LoadInv, Loaded
  <1> QED BY <1>1, <1>2, <1>3 DEF HasNumbered, Has

LEMMA LoadSucceedsStep == ASSUME IndInv, NEW p \in Procs, LoadSucceeds(p) PROVE IndInv'
  <1> USE Constants
  <1>0. TypeOK /\ ProcInv(p) /\ FilesInv
    BY DEF IndInv
  <1> DEFINE M == {n \in Names : got[p][n] # None}
             top == Max(M)
  <1>1. /\ Loading(p) /\ todo[p] = {} /\ Loaded(p) # {} /\ Empty \notin Loaded(p)
        /\ UNCHANGED <<repoVars, todo, tokens>>
    BY DEF LoadSucceeds, Ended
  <1>2. top \in M /\ \A n \in M : n <= top
    <2>1. M \in SUBSET Names /\ M # {}
      BY <1>1 DEF Loaded
    <2> HIDE DEF M
    <2> QED BY <2>1, MaxOfNames
  <1> HIDE DEF top
  <1>3. Loaded(p) \subseteq Keys /\ got[p][top] \in Loaded(p)
    <2>1. \A n \in Names : got[p][n] \in Keys \cup {None, Empty}
      BY <1>0 DEF TypeOK
    <2>2. Loaded(p) \subseteq Keys
      BY <1>1, <2>1 DEF Loaded
    <2> QED BY <1>2, <2>2 DEF Loaded
  <1>4. /\ pc'[p] = "up" /\ keys'[p] = Loaded(p) /\ primary'[p] = got[p][top]
        /\ missed'[p] = torn[p] /\ current'[p] = (began[p] = day)
        /\ reloaded'[p] = (reloaded[p] \/ (calm[p] /\ began[p] = day))
    BY <1>0 DEF TypeOK, LoadSucceeds, Ended, top
  <1>5. TypeOK'
    <2>1. NoKeys \in [Names -> Keys \cup {None, Empty}]
      BY DEF NoKeys
    <2>2. keys' \in [Procs -> SUBSET Keys] /\ primary' \in [Procs -> Keys \cup {None}]
      BY <1>0, <1>3 DEF TypeOK, LoadSucceeds, top
    <2>3. {reloaded', calm', torn', current', missed'} \subseteq [Procs -> BOOLEAN]
      <3>1. reloaded' \in [Procs -> BOOLEAN]
        BY <1>0 DEF TypeOK, LoadSucceeds, Ended
      <3>2. calm' \in [Procs -> BOOLEAN] /\ torn' \in [Procs -> BOOLEAN]
        BY <1>0 DEF TypeOK, LoadSucceeds, Ended
      <3>3. missed' \in [Procs -> BOOLEAN] /\ current' \in [Procs -> BOOLEAN]
        BY <1>0 DEF TypeOK, LoadSucceeds
      <3> QED BY <3>1, <3>2, <3>3
    <2> QED BY <1>0, <2>1, <2>2, <2>3 DEF TypeOK, LoadSucceeds, Ended, repoVars
  <1>6. ProcInv(p)'
    <2>1. ~ Loading(p)' /\ Running(p)' /\ todo'[p] = {}
      BY <1>1, <1>4 DEF Loading, Running
    <2>2. LoadInv(p)'
      BY <2>1 DEF LoadInv
    <2>3. RunInv(p)'
      <3>1. reloaded'[p] => ~ Rotating
        BY <1>0, <1>1, <1>4 DEF ProcInv, LoadInv, CalmLoad, RunInv
      <3> QED BY <1>1, <1>3, <1>4, <2>1, <3>1 DEF RunInv, Rotating, repoVars
    <2>4. KnownInv(p)'
      <3> SUFFICES ASSUME ~ torn[p] PROVE KnownInv(p)'
        BY <1>4 DEF KnownInv
      <3>1. /\ \A n \in Names : got[p][n] # None => n <= began[p] + 1 /\ got[p][n] \in Loaded(p)
            /\ \A n \in Names :
                  0 < n /\ n <= began[p] + 1 /\ repo[n] # None => got[p][n] = repo[n]
            /\ ~ ReadFailed(p)
        BY <1>1, WhatWasRead
      <3>2. /\ UNCHANGED <<repo, day, job>> /\ Top' = Top
        BY <1>1 DEF repoVars, Top
      <3>3. /\ began[p] \in Nat /\ day \in Nat /\ began[p] <= day /\ day <= began[p] + 1
        BY <1>0, <1>1 DEF ProcInv, LoadInv, TypeOK
      <3>4. /\ Top \in Names /\ repo[Top] # None
            /\ \A n \in Names \ {0} : n \in Nat /\ 0 < n /\ (repo[n] # None => n <= Top)
            /\ day # 0 => day \in Names /\ repo[day] # None
        BY <1>0, <3>3 DEF FilesInv, Numbers, Top, Names
      <3>5. CASE began[p] = day
        <4>1. \A n \in Names \ {0} : repo[n] # None => got[p][n] = repo[n]
          <5> TAKE n \in Names \ {0}
          <5>1. repo[n] # None => 0 < n /\ n <= began[p] + 1
            BY <3>3, <3>4, <3>5 DEF Top
          <5> QED BY <3>1, <5>1
        <4>2. \A n \in Names \ {0} : repo[n] # None => repo[n] \in Loaded(p)
          BY <3>1, <4>1
        <4>3. top = Top
          <5>1. Top \in Names \ {0} /\ Top = began[p] + 1
            BY <3>3, <3>4, <3>5 DEF Top
          <5>2. Top \in M /\ \A n \in M : n <= Top
            BY <3>1, <3>4, <4>1, <5>1
          <5>3. top <= Top /\ Top <= top /\ top \in Nat
            BY <1>2, <5>2
          <5> QED BY <5>1, <5>3
        <4>4. primary'[p] = repo[Top] /\ Top # 0
          BY <1>4, <3>3, <3>4, <4>1, <4>3 DEF Top
        <4>5. calm[p] => job = "idle" /\ got[p][0] = repo[0]
          BY <1>0, <1>1, <3>5 DEF ProcInv, LoadInv, CalmLoad, Has
        <4>6. \/ got[p][0] \in {repo[0], Empty}
              \/ repo[0] = None /\ job = "idle"
              \/ ~ calm[p] /\ ~ reloaded[p] /\ job \notin {"init", "initialized"}
          BY <1>0, <1>1, <3>1, <3>5 DEF ProcInv, LoadInv, Staged
        <4>7. got[p][0] # Empty
          BY <1>1, <3>1
        <4>8. job # "init"
          BY <1>0, <3>1, <4>5, <4>6, <4>7 DEF FilesInv, Numbers
        <4>9. reloaded'[p] /\ repo[0] \in Keys => repo[0] \in Loaded(p)
          BY <1>4, <3>1, <4>5, <4>6, <4>7
        <4> QED BY <1>1, <1>4, <3>2, <4>2, <4>4, <4>8, <4>9 DEF KnownInv
      <3>6. CASE began[p] # day
        <4>1. day = began[p] + 1 /\ day # 0
          BY <3>3, <3>6
        <4>2. \A n \in Names \ {0} : repo[n] # None /\ n # Top => got[p][n] = repo[n]
          <5> TAKE n \in Names \ {0}
          <5>1. repo[n] # None /\ n # Top => 0 < n /\ n <= began[p] + 1
            BY <3>3, <3>4, <4>1 DEF Top
          <5> QED BY <3>1, <5>1
        <4>3. got[p][0] \in {repo[Top], Empty}
          BY <1>0, <1>1, <3>1, <3>6 DEF ProcInv, LoadInv, Staged
        <4>4. got[p][0] = repo[Top]
          BY <1>1, <3>1, <4>3
        <4>5. \A n \in Names \ {0} : repo[n] # None => repo[n] \in Loaded(p)
          BY <3>1, <3>4, <4>2, <4>4
        <4>6. top = day /\ got[p][day] = repo[day]
          <5>1. day \in Names \ {0} /\ day # Top /\ repo[day] # None
            BY <3>3, <3>4, <4>1 DEF Top
          <5>2. got[p][day] = repo[day]
            BY <4>2, <5>1
          <5>3. day \in M /\ \A n \in M : n <= day
            BY <3>1, <4>1, <5>1, <5>2
          <5>4. top <= day /\ day <= top /\ top \in Nat
            BY <1>2, <5>3
          <5> QED BY <3>3, <5>2, <5>4
        <4> QED BY <1>4, <3>2, <3>6, <4>1, <4>5, <4>6 DEF KnownInv
      <3> QED BY <3>5, <3>6
    <2> QED BY <2>2, <2>3, <2>4 DEF ProcInv
  <1>7. TokensInv'
    BY <1>1, SameTokens DEF IndInv, repoVars
  <1> QED BY <1>0, <1>1, <1>5, <1>6, <1>7, ProcStep DEF TypeOK, LoadSucceeds, Ended

LEMMA LoadFailsStep == ASSUME IndInv, NEW p \in Procs, LoadFails(p) PROVE IndInv'
  <1> USE Constants
  <1>0. TypeOK /\ ProcInv(p) /\ FilesInv
    BY DEF IndInv
  <1> DEFINE to == IF pc[p] = "starting" THEN "down" ELSE "up"
  <1>1. /\ Loading(p) /\ todo[p] = {} /\ (Loaded(p) = {} \/ Empty \in Loaded(p))
        /\ UNCHANGED <<repoVars, todo, tokens, keys, primary, current, missed>>
    BY DEF LoadFails, Ended
  <1>2. /\ pc'[p] = to
        /\ reloaded'[p] = (reloaded[p] \/ (calm[p] /\ began[p] = day))
    BY <1>0 DEF TypeOK, LoadFails, Ended
  <1>3. TypeOK'
    <2>1. NoKeys \in [Names -> Keys \cup {None, Empty}]
      BY DEF NoKeys
    <2>2. reloaded' \in [Procs -> BOOLEAN]
      BY <1>0 DEF TypeOK, LoadFails, Ended
    <2>3. calm' \in [Procs -> BOOLEAN] /\ torn' \in [Procs -> BOOLEAN]
      BY <1>0 DEF TypeOK, LoadFails, Ended
    <2>4. pc' \in [Procs -> {"down", "starting", "up", "reloading"}]
      BY <1>0 DEF TypeOK, LoadFails, Ended
    <2>5. /\ got' \in [Procs -> [Names -> Keys \cup {None, Empty}]]
          /\ began' \in [Procs -> Nat]
      BY <1>0, <2>1 DEF TypeOK, LoadFails, Ended
    <2> QED BY <1>0, <1>1, <2>2, <2>3, <2>4, <2>5 DEF TypeOK, repoVars
  <1>4. ProcInv(p)'
    <2>1. ~ Loading(p)' /\ Running(p)' = Running(p) /\ todo'[p] = {}
      BY <1>1, <1>2 DEF Loading, Running
    <2>2. LoadInv(p)'
      BY <2>1 DEF LoadInv
    <2>3. RunInv(p)'
      <3>1. reloaded'[p] => ~ Rotating
        BY <1>0, <1>1, <1>2 DEF ProcInv, LoadInv, CalmLoad, RunInv
      <3> QED BY <1>0, <1>1, <2>1, <3>1 DEF ProcInv, RunInv, Rotating, repoVars
    <2>4. KnownInv(p)'
      <3> SUFFICES ASSUME Running(p), ~ missed[p] PROVE KnownInv(p)'
        BY <1>1, <2>1 DEF KnownInv
      <3>1. current[p] /\ calm[p] /\ began[p] = day => repo[0] \notin Keys
        <4> SUFFICES ASSUME current[p], calm[p], began[p] = day PROVE repo[0] \notin Keys
          OBVIOUS
        <4>1. \A n \in Names : got[p][n] = repo[n]
          BY <1>0, <1>1 DEF ProcInv, LoadInv, CalmLoad, Has
        <4>2. \A n \in Names \ {0} : repo[n] # Empty
          BY <1>0 DEF ProcInv, KnownInv
        <4>3. Top \in Names /\ repo[Top] # None
          BY <1>0 DEF FilesInv, Numbers, TypeOK, Top
        <4>4. Loaded(p) # {}
          BY <4>1, <4>3 DEF Loaded
        <4>5. repo[0] = Empty
          BY <1>1, <4>1, <4>2, <4>4 DEF Loaded
        <4> QED BY <4>5
      <3> QED BY <1>0, <1>1, <1>2, <3>1 DEF ProcInv, KnownInv, Top, repoVars
    <2> QED BY <2>2, <2>3, <2>4 DEF ProcInv
  <1>5. TokensInv'
    BY <1>1, SameTokens DEF IndInv, repoVars
  <1> QED BY <1>0, <1>1, <1>3, <1>4, <1>5, ProcStep DEF TypeOK, LoadFails, Ended

LEMMA ProcEndsStep == ASSUME IndInv, NEW p \in Procs, ProcEnds(p) PROVE IndInv'
  <1> USE Constants
  <1>0. TypeOK
    BY DEF IndInv
  <1>1. NoKeys \in [Names -> Keys \cup {None, Empty}]
    BY DEF NoKeys
  <1>2. TypeOK'
    BY <1>0, <1>1 DEF TypeOK, ProcEnds, repoVars
  <1>3. ProcInv(p)'
    <2>1. pc'[p] = "down" /\ todo'[p] = {} /\ reloaded'[p] = FALSE /\ current'[p] = FALSE
      BY <1>0 DEF TypeOK, ProcEnds
    <2> QED BY <2>1 DEF ProcInv, LoadInv, KnownInv, RunInv, Loading, Running
  <1>4. TokensInv'
    BY SameTokens DEF IndInv, ProcEnds, repoVars
  <1> QED BY <1>0, <1>2, <1>3, <1>4, ProcStep DEF TypeOK, ProcEnds

LEMMA MakeTokenStep == ASSUME IndInv, NEW p \in Procs, MakeToken(p) PROVE IndInv'
  <1> USE Constants
  <1>0. TypeOK /\ ProcInv(p) /\ TokensInv
    BY DEF IndInv
  <1> DEFINE new == [key |-> primary[p], day |-> day]
  <1>1. /\ Running(p) /\ ~ missed[p] /\ tokens' = tokens \cup {new}
        /\ UNCHANGED <<repo, made, job, day, deaths, pc, todo, got, reloaded, began, calm, torn,
                       keys, primary, current, missed>>
    BY DEF MakeToken, repoVars, loadVars
  <1>2. primary[p] \in Keys
    BY <1>0, <1>1 DEF ProcInv, RunInv, TypeOK
  <1>3. TypeOK'
    BY <1>0, <1>1, <1>2 DEF TypeOK
  <1>4. ProcInv(p)'
    BY <1>0, <1>1, OtherProcs
  <1>5. TokensInv'
    <2>1. PICK n \in {day, Top} : n # 0 /\ repo[n] = primary[p]
      BY <1>0, <1>1 DEF ProcInv, KnownInv
    <2>2. n \in Names \ {0} /\ day <= n
      <3>1. Top \in Names /\ day \in Nat
        BY <1>0 DEF IndInv, FilesInv, Numbers, TypeOK
      <3> QED BY <2>1, <3>1 DEF Top, Names
    <2>3. /\ new.day <= day /\ day <= new.day + Life
          /\ new.day <= n /\ repo[n] = new.key
      BY <1>0, <2>1, <2>2 DEF TypeOK
    <2> QED BY <1>0, <1>1, <2>2, <2>3 DEF TokensInv
  <1> QED BY <1>1, <1>3, <1>4, <1>5, ProcStep DEF repoVars

-----------------------------------------------------------------------------
(***************************************************************************)
(* gcenter-fernet.                                                         *)
(***************************************************************************)

\* The key file with the greatest number is the primary one.
LEMMA MaxIsTop == ASSUME TypeOK, FilesInv PROVE Max(Files) = Top
  <1> USE Constants
  <1>1. Top \in Files /\ \A n \in Files : n <= Top
    BY DEF FilesInv, Numbers, Files, Top, TypeOK
  <1>2. Files \in SUBSET Names /\ Files # {}
    BY <1>1 DEF Files
  <1>3. Max(Files) \in Files /\ \A n \in Files : n <= Max(Files)
    BY <1>2, MaxOfNames
  <1>4. Max(Files) \in Nat /\ Top \in Nat
    BY <1>1, <1>2, <1>3
  <1> QED BY <1>1, <1>3, <1>4

LEMMA PromoteStep == ASSUME IndInv, Promote PROVE IndInv'
  <1> USE Constants
  <1>0. TypeOK /\ FilesInv /\ TokensInv
    BY DEF IndInv
  <1>1. /\ job = "initialized" \/ (job = "idle" /\ DayIsOver)
        /\ repo[0] # None /\ made < MaxKeys
        /\ job' = "renamed" /\ day' = day + 1
        /\ UNCHANGED <<made, deaths, pc, todo, got, began, calm, keys, primary>>
    BY DEF Promote, Files
  <1>2. day \in Nat /\ Top \in Names /\ Top # 0 /\ Top + 1 \in Names /\ Top + 1 # 0 /\ Top' = Top + 1
    BY <1>0, <1>1 DEF FilesInv, Numbers, TypeOK, Top, Names
  <1>3. repo' = [repo EXCEPT ![0] = None, ![Top + 1] = repo[0]]
    BY <1>0, MaxIsTop DEF Promote
  <1>4. /\ repo'[0] = None /\ repo'[Top + 1] = repo[0]
        /\ \A n \in Names \ {0, Top + 1} : repo'[n] = repo[n]
    BY <1>0, <1>2, <1>3 DEF TypeOK
  <1>5. \A p \in Procs :
           /\ reloaded'[p] = FALSE /\ current'[p] = FALSE
           /\ missed'[p] = (missed[p] \/ (Running(p) /\ (job = "initialized" \/ ~ current[p])))
           /\ torn'[p] = (torn[p] \/ (job = "initialized" /\ Loading(p)))
    BY DEF Promote
  <1>6. TypeOK'
    <2>1. repo' \in [Names -> Keys \cup {None, Empty}]
      BY <1>0, <1>3 DEF TypeOK
    <2>2. reloaded' \in [Procs -> BOOLEAN] /\ current' \in [Procs -> BOOLEAN]
      BY DEF Promote
    <2>3. missed' \in [Procs -> BOOLEAN]
      <3>1. \A p \in Procs :
               (missed[p] \/ (Running(p) /\ (job = "initialized" \/ ~ current[p]))) \in BOOLEAN
        BY <1>0 DEF TypeOK
      <3> QED BY <3>1 DEF Promote
    <2>4. torn' \in [Procs -> BOOLEAN]
      <3>1. \A p \in Procs : (torn[p] \/ (job = "initialized" /\ Loading(p))) \in BOOLEAN
        BY <1>0 DEF TypeOK
      <3> QED BY <3>1 DEF Promote
    <2>5. tokens' \subseteq tokens
      BY DEF Promote
    <2> QED BY <1>0, <1>1, <2>1, <2>2, <2>3, <2>4, <2>5 DEF TypeOK
  <1>7. FilesInv'
    <2>1. PICK lo \in 1..Top : /\ \A n \in Names \ {0} : repo[n] # None <=> lo <= n /\ n <= Top
                               /\ day = 0 \/ lo <= day
      BY <1>0 DEF FilesInv, Numbers
    <2>2. \A n \in Names \ {0} : repo'[n] # None <=> lo <= n /\ n <= Top + 1
      <3> TAKE n \in Names \ {0}
      <3>1. CASE n = Top + 1
        BY <1>1, <1>2, <1>4, <2>1, <3>1
      <3>2. CASE n # Top + 1
        BY <1>2, <1>4, <2>1, <3>2
      <3> QED BY <3>1, <3>2
    <2>3. lo \in 1..(Top + 1) /\ lo <= day + 1
      BY <1>2, <2>1 DEF Top
    <2>4. day + 1 <= made + deaths - 1
      BY <1>0, <1>1 DEF FilesInv, Numbers
    <2> QED BY <1>1, <1>2, <1>4, <2>2, <2>3, <2>4 DEF FilesInv, Numbers
  <1>8. ASSUME NEW p \in Procs PROVE ProcInv(p)'
    <2>0. ProcInv(p)
      BY DEF IndInv
    <2>1. LoadInv(p)'
      <3> SUFFICES ASSUME Loading(p) PROVE LoadInv(p)'
        BY <1>1 DEF LoadInv, Loading
      <3>1. began[p] \in Nat /\ began[p] <= day /\ began[p] <= day'
        BY <1>0, <1>1, <2>0 DEF ProcInv, LoadInv, TypeOK
      <3>2. ~ torn'[p] => /\ ~ torn[p] /\ job = "idle" /\ began[p] = day
                          /\ reloaded[p] \/ calm[p]
        <4> SUFFICES ASSUME ~ torn'[p]
                     PROVE  ~ torn[p] /\ job = "idle" /\ began[p] = day /\ (reloaded[p] \/ calm[p])
          OBVIOUS
        <4>1. ~ torn[p] /\ job = "idle" /\ DayIsOver
          BY <1>1, <1>5
        <4>2. reloaded[p] \/ (calm[p] /\ began[p] = day)
          BY <4>1 DEF DayIsOver, Loading
        <4>3. began[p] < day => ~ reloaded[p]
          BY <2>0 DEF ProcInv, LoadInv
        <4> QED BY <1>2, <3>1, <4>1, <4>2, <4>3
      <3>3. \A n \in Names : 0 < n /\ n <= began[p] + 1 => repo'[n] = repo[n]
        BY <1>2, <1>4, <3>1 DEF Top
      <3>4. ReadFailed(p)' \/ HasNumbered(p)'
        <4>1. ReadFailed(p)' = ReadFailed(p)
          BY <1>1 DEF ReadFailed
        <4>2. ReadFailed(p) \/ HasNumbered(p)
          BY <2>0 DEF ProcInv, LoadInv
        <4>3. HasNumbered(p) => HasNumbered(p)'
          BY <1>1, <3>3 DEF HasNumbered, Has
        <4> QED BY <4>1, <4>2, <4>3
      <3>5. began'[p] # day'
        BY <1>1, <1>2, <3>1
      <3>6. CalmLoad(p)'
        BY <3>5 DEF CalmLoad
      <3>7. Staged(p)'
        <4> SUFFICES ASSUME ~ torn'[p] PROVE Staged(p)'
          BY DEF Staged
        <4>1. ReadFailed(p) \/ 0 \in todo[p] \/ got[p][0] \in {repo[0], Empty}
          BY <1>1, <2>0, <3>2 DEF ProcInv, LoadInv, Staged
        <4>2. repo'[Top'] = repo[0]
          BY <1>2, <1>4
        <4> QED BY <1>1, <3>5, <4>1, <4>2 DEF Staged, ReadFailed
      <3>8. ~ torn'[p] => day' <= began'[p] + 1
        BY <1>1, <1>2, <3>1, <3>2
      <3> QED BY <1>1, <1>5, <2>0, <3>1, <3>4, <3>6, <3>7, <3>8 DEF ProcInv, LoadInv
    <2>2. KnownInv(p)'
      <3> SUFFICES ASSUME Running(p), ~ missed'[p] PROVE KnownInv(p)'
        BY <1>1 DEF KnownInv, Running
      <3>1. ~ missed[p] /\ job = "idle" /\ current[p] /\ reloaded[p]
        BY <1>1, <1>5 DEF DayIsOver, Running
      <3>2. repo[0] \in Keys => repo[0] \in keys[p]
        BY <2>0, <3>1 DEF ProcInv, KnownInv
      <3>3. \A n \in Names \ {0} : repo[n] \in Keys => repo[n] \in keys[p]
        BY <2>0, <3>1 DEF ProcInv, KnownInv
      <3>4. repo[Top] = primary[p]
        BY <2>0, <3>1 DEF ProcInv, KnownInv
      <3>5. \A n \in Names \ {0} : repo'[n] \in Keys => repo'[n] \in keys'[p]
        BY <1>1, <1>4, <3>2, <3>3
      <3>6. day' # 0 /\ repo'[day'] = primary'[p]
        BY <1>1, <1>2, <1>4, <3>4 DEF Top
      <3> QED BY <1>5, <3>5, <3>6 DEF KnownInv
    <2>3. RunInv(p)'
      BY <1>1, <1>5, <2>0 DEF ProcInv, RunInv, Running, Loading
    <2> QED BY <2>1, <2>2, <2>3 DEF ProcInv
  <1>9. TokensInv'
    <2> SUFFICES ASSUME NEW token \in tokens'
                 PROVE  /\ token.day <= day' /\ day' <= token.day + Life
                        /\ \E n \in Names \ {0} : token.day <= n /\ repo'[n] = token.key
      BY DEF TokensInv
    <2>1. token \in tokens /\ day' <= token.day + Life
      BY DEF Promote, Alive
    <2>2. PICK n \in Names \ {0} : token.day <= n /\ repo[n] = token.key
      BY <1>0, <2>1 DEF TokensInv
    <2>3. repo[n] # None /\ token.day \in Nat /\ token.day <= day
      BY <1>0, <2>1, <2>2 DEF TypeOK, TokensInv
    <2>4. n # Top + 1
      BY <1>0, <1>2, <2>2, <2>3 DEF FilesInv, Numbers
    <2> QED BY <1>1, <1>2, <1>4, <2>1, <2>2, <2>3, <2>4
  <1> QED BY <1>6, <1>7, <1>8, <1>9 DEF IndInv

\* A step that changes file 0 at most.
LEMMA NumberedStay ==
  ASSUME NEW p \in Procs, ProcInv(p), TypeOK, \A n \in Names \ {0} : repo'[n] = repo[n],
         FilesInv,
         UNCHANGED <<day, pc, todo, got, reloaded, began, calm, keys, primary, missed>>,
         current'[p] => current[p], torn[p] => torn'[p],
         reloaded[p] => ~ Rotating',
         Loading(p) => CalmLoad(p)' /\ Staged(p)',
         Running(p) /\ ~ missed[p] /\ current'[p] =>
            /\ job' # "init"
            /\ reloaded[p] /\ repo'[0] \in Keys => repo'[0] \in keys[p]
  PROVE  ProcInv(p)'
  <1> USE Constants
  <1>1. LoadInv(p)'
    <2> SUFFICES ASSUME Loading(p) PROVE LoadInv(p)'
      BY DEF LoadInv, Loading
    <2>1. HasNumbered(p) => HasNumbered(p)'
      <3> SUFFICES ASSUME HasNumbered(p), NEW n \in Names,
                          0 < n /\ n <= began[p] + 1 /\ repo'[n] # None
                   PROVE  Has(p, n)'
        BY DEF HasNumbered
      <3>1. n # 0 /\ repo'[n] = repo[n]
        OBVIOUS
      <3>2. Has(p, n)
        BY <3>1 DEF HasNumbered
      <3> QED BY <3>1, <3>2 DEF Has
    <2>2. ReadFailed(p)' = ReadFailed(p)
      BY DEF ReadFailed
    <2> QED BY <2>1, <2>2 DEF ProcInv, LoadInv
  <1>2. KnownInv(p)'
    <2> SUFFICES ASSUME Running(p), ~ missed[p] PROVE KnownInv(p)'
      BY DEF KnownInv, Running
    <2>1. \A n \in Names \ {0} : repo[n] \in Keys => repo[n] \in keys[p]
      BY DEF ProcInv, KnownInv
    <2>2. PICK n \in {day, Top} : n # 0 /\ repo[n] = primary[p] /\ (current[p] => n = Top)
      BY DEF ProcInv, KnownInv
    <2>3. repo'[n] = primary[p]
      <3>1. n \in Names
        BY DEF FilesInv, Numbers, Top, Names, TypeOK
      <3> QED BY <2>2, <3>1
    <2>4. current[p] => \A i \in Names \ {0} : repo[i] # Empty
      BY DEF ProcInv, KnownInv
    <2> QED BY <2>1, <2>2, <2>3, <2>4 DEF KnownInv, Top
  <1>3. RunInv(p)'
    BY DEF ProcInv, RunInv, Running, Loading
  <1> QED BY <1>1, <1>2, <1>3 DEF ProcInv

LEMMA FilesStay ==
  ASSUME FilesInv, \A n \in Names \ {0} : repo'[n] = repo[n], day' = day
  PROVE  Numbers'
  <1>1. Top' = Top
    BY DEF Top
  <1>2. PICK lo \in 1..Top : /\ \A n \in Names \ {0} : repo[n] # None <=> lo <= n /\ n <= Top
                             /\ day = 0 \/ lo <= day
    BY DEF FilesInv, Numbers
  <1>3. \A n \in Names \ {0} : repo'[n] # None <=> lo <= n /\ n <= Top'
    BY <1>1, <1>2
  <1> QED BY <1>1, <1>2, <1>3 DEF FilesInv, Numbers

LEMMA TokensStay ==
  ASSUME TokensInv, \A n \in Names \ {0} : repo'[n] = repo[n], UNCHANGED <<day, tokens>>
  PROVE  TokensInv'
  BY DEF TokensInv

LEMMA OpenKeyStep == ASSUME IndInv, OpenKey PROVE IndInv'
  <1> USE Constants
  <1>0. TypeOK /\ FilesInv /\ TokensInv
    BY DEF IndInv
  <1>1. /\ job = "renamed" /\ job' = "opened" /\ Rotating
        /\ repo'[0] = Empty /\ \A n \in Names \ {0} : repo'[n] = repo[n]
        /\ UNCHANGED <<made, day, deaths, pc, todo, got, reloaded, began, calm, torn, keys,
                       primary, current, missed, tokens>>
    BY <1>0 DEF OpenKey, TypeOK, Rotating, loadVars
  <1>2. TypeOK'
    BY <1>0, <1>1 DEF TypeOK, OpenKey
  <1>3. FilesInv'
    BY <1>0, <1>1, FilesStay DEF FilesInv, TypeOK
  <1>4. ASSUME NEW p \in Procs PROVE ProcInv(p)'
    <2>1. ProcInv(p) /\ ~ reloaded[p]
      BY <1>1 DEF IndInv, ProcInv, RunInv
    <2>2. ASSUME Loading(p) PROVE CalmLoad(p)' /\ Staged(p)'
      <3>1. ~ (calm[p] /\ began[p] = day)
        BY <1>1, <2>1, <2>2 DEF ProcInv, LoadInv, CalmLoad
      <3>2. CalmLoad(p)'
        BY <1>1, <3>1 DEF CalmLoad
      <3>3. Staged(p)'
        <4>1. Staged(p)
          BY <2>1, <2>2 DEF ProcInv, LoadInv
        <4>2. CASE began[p] = day
          BY <1>1, <2>1, <3>1, <4>2 DEF Staged
        <4>3. CASE began[p] # day
          <5>1. repo'[Top'] = repo[Top]
            BY <1>0, <1>1 DEF Top, FilesInv, Numbers, TypeOK
          <5> QED BY <1>1, <4>1, <4>3, <5>1 DEF Staged, ReadFailed
        <4> QED BY <4>2, <4>3
      <3> QED BY <3>2, <3>3
    <2> QED BY <1>0, <1>1, <2>1, <2>2, NumberedStay
  <1>5. TokensInv'
    BY <1>0, <1>1, TokensStay
  <1> QED BY <1>2, <1>3, <1>4, <1>5 DEF IndInv

LEMMA CreatedStep == ASSUME IndInv, WriteKey("opened", "created") PROVE IndInv'
  <1> USE Constants
  <1>0. TypeOK /\ FilesInv /\ TokensInv
    BY DEF IndInv
  <1>1. /\ job = "opened" /\ job' = "created" /\ Rotating
        /\ made' = made + 1 /\ repo'[0] = made + 1 /\ \A n \in Names \ {0} : repo'[n] = repo[n]
        /\ UNCHANGED <<day, deaths, pc, todo, got, reloaded, began, calm, torn, keys,
                       primary, current, missed, tokens>>
    BY <1>0 DEF WriteKey, TypeOK, Rotating, loadVars
  <1>2. made + 1 \in Keys /\ made' \in 0..MaxKeys
    BY <1>0, <1>1 DEF FilesInv, Numbers, TypeOK, Keys
  <1>3. TypeOK'
    BY <1>0, <1>1, <1>2 DEF TypeOK, WriteKey
  <1>4. FilesInv'
    BY <1>0, <1>1, <1>2, FilesStay DEF FilesInv, TypeOK
  <1>5. ASSUME NEW p \in Procs PROVE ProcInv(p)'
    <2>1. ProcInv(p) /\ ~ reloaded[p]
      BY <1>1 DEF IndInv, ProcInv, RunInv
    <2>2. ASSUME Loading(p) PROVE CalmLoad(p)' /\ Staged(p)'
      <3>1. ~ (calm[p] /\ began[p] = day)
        BY <1>1, <2>1, <2>2 DEF ProcInv, LoadInv, CalmLoad
      <3>2. CalmLoad(p)'
        BY <1>1, <3>1 DEF CalmLoad
      <3>3. Staged(p)'
        <4>1. Staged(p)
          BY <2>1, <2>2 DEF ProcInv, LoadInv
        <4>2. CASE began[p] = day
          BY <1>1, <2>1, <3>1, <4>2 DEF Staged
        <4>3. CASE began[p] # day
          <5>1. repo'[Top'] = repo[Top]
            BY <1>0, <1>1 DEF Top, FilesInv, Numbers, TypeOK
          <5> QED BY <1>1, <4>1, <4>3, <5>1 DEF Staged, ReadFailed
        <4> QED BY <4>2, <4>3
      <3> QED BY <3>2, <3>3
    <2> QED BY <1>0, <1>1, <2>1, <2>2, NumberedStay
  <1>6. TokensInv'
    BY <1>0, <1>1, TokensStay
  <1> QED BY <1>3, <1>4, <1>5, <1>6 DEF IndInv

LEMMA InitializedStep == ASSUME IndInv, WriteKey("init", "initialized") PROVE IndInv'
  <1> USE Constants
  <1>0. TypeOK /\ FilesInv /\ TokensInv
    BY DEF IndInv
  <1>1. /\ job = "init" /\ job' = "initialized" /\ ~ Rotating /\ ~ Rotating'
        /\ made' = made + 1 /\ repo'[0] = made + 1 /\ \A n \in Names \ {0} : repo'[n] = repo[n]
        /\ UNCHANGED <<day, deaths, pc, todo, got, reloaded, began, calm, torn, keys,
                       primary, current, missed, tokens>>
    BY <1>0 DEF WriteKey, TypeOK, Rotating, loadVars
  <1>2. made + 1 \in Keys /\ made' \in 0..MaxKeys
    BY <1>0, <1>1 DEF FilesInv, TypeOK, Keys
  <1>3. TypeOK'
    BY <1>0, <1>1, <1>2 DEF TypeOK, WriteKey
  <1>4. FilesInv'
    BY <1>0, <1>1, <1>2, FilesStay DEF FilesInv, TypeOK
  <1>5. ASSUME NEW p \in Procs PROVE ProcInv(p)'
    <2>1. ProcInv(p) /\ repo[0] = Empty
      BY <1>0, <1>1 DEF IndInv, FilesInv
    <2>2. ASSUME Loading(p) PROVE CalmLoad(p)' /\ Staged(p)'
      <3>1. calm[p] /\ began[p] = day => torn[p] /\ ~ current[p]
        BY <1>1, <2>1, <2>2 DEF ProcInv, LoadInv, CalmLoad
      <3>2. CalmLoad(p)'
        BY <1>1, <3>1 DEF CalmLoad
      <3>3. Staged(p)'
        <4>1. Staged(p)
          BY <2>1, <2>2 DEF ProcInv, LoadInv
        <4>2. CASE began[p] = day
          BY <1>1, <2>1, <4>1, <4>2 DEF Staged, ReadFailed
        <4>3. CASE began[p] # day
          <5>1. repo'[Top'] = repo[Top]
            BY <1>0, <1>1 DEF Top, FilesInv, Numbers, TypeOK
          <5> QED BY <1>1, <4>1, <4>3, <5>1 DEF Staged, ReadFailed
        <4> QED BY <4>2, <4>3
      <3> QED BY <3>2, <3>3
    <2>3. Running(p) /\ ~ missed[p] => ~ current[p]
      BY <1>1, <2>1 DEF ProcInv, KnownInv
    <2> QED BY <1>0, <1>1, <2>1, <2>2, <2>3, NumberedStay
  <1>6. TokensInv'
    BY <1>0, <1>1, TokensStay
  <1> QED BY <1>3, <1>4, <1>5, <1>6 DEF IndInv

LEMMA InitBeginsStep == ASSUME IndInv, InitBegins PROVE IndInv'
  <1> USE Constants
  <1>0. TypeOK /\ FilesInv /\ TokensInv
    BY DEF IndInv
  <1>1. /\ job = "idle" /\ job' = "init" /\ ~ Rotating' /\ repo[0] = None /\ made + 1 < MaxKeys
        /\ repo'[0] = Empty /\ \A n \in Names \ {0} : repo'[n] = repo[n]
        /\ UNCHANGED <<made, day, deaths, pc, todo, got, reloaded, began, calm, keys,
                       primary, missed, tokens>>
    BY <1>0 DEF InitBegins, TypeOK, Rotating, Files
  <1>2. \A p \in Procs : current'[p] = FALSE /\ torn'[p] = (torn[p] \/ Loading(p))
    BY DEF InitBegins
  <1>3. TypeOK'
    <2>1. \A p \in Procs : (torn[p] \/ Loading(p)) \in BOOLEAN
      BY <1>0 DEF TypeOK
    <2>2. torn' \in [Procs -> BOOLEAN]
      BY <2>1 DEF InitBegins
    <2>3. current' \in [Procs -> BOOLEAN] /\ repo' \in [Names -> Keys \cup {None, Empty}]
      BY <1>0 DEF InitBegins, TypeOK
    <2> QED BY <1>0, <1>1, <2>2, <2>3 DEF TypeOK
  <1>4. FilesInv'
    BY <1>0, <1>1, FilesStay DEF FilesInv, TypeOK
  <1>5. ASSUME NEW p \in Procs PROVE ProcInv(p)'
    <2>1. ASSUME Loading(p) PROVE CalmLoad(p)' /\ Staged(p)'
      BY <1>1, <1>2, <2>1 DEF CalmLoad, Staged
    <2> QED BY <1>0, <1>1, <1>2, <2>1, NumberedStay DEF IndInv
  <1>6. TokensInv'
    BY <1>0, <1>1, TokensStay
  <1> QED BY <1>3, <1>4, <1>5, <1>6 DEF IndInv

LEMMA RotationDiesStep == ASSUME IndInv, RotationDies PROVE IndInv'
  <1> USE Constants
  <1>0. TypeOK /\ FilesInv /\ TokensInv
    BY DEF IndInv
  <1>1. /\ job # "idle" /\ job' = "idle" /\ ~ Rotating'
        /\ deaths' = deaths + 1 /\ deaths < MaxDeaths
        /\ UNCHANGED <<repo, made, day, pc, todo, got, reloaded, began, calm, torn, keys,
                       primary, current, missed, tokens>>
    BY DEF RotationDies, Rotating, loadVars
  <1>2. TypeOK'
    BY <1>0, <1>1 DEF TypeOK
  <1>3. FilesInv'
    BY <1>0, <1>1, FilesStay DEF FilesInv, TypeOK
  <1>4. ASSUME NEW p \in Procs PROVE ProcInv(p)'
    <2>1. ProcInv(p)
      BY DEF IndInv
    <2>2. ASSUME Loading(p) PROVE CalmLoad(p)' /\ Staged(p)'
      <3>1. CalmLoad(p) /\ Staged(p)
        BY <2>1, <2>2 DEF ProcInv, LoadInv
      <3>2. CalmLoad(p)'
        BY <1>1, <3>1 DEF CalmLoad
      <3>3. Staged(p)'
        BY <1>1, <3>1 DEF Staged, ReadFailed, Top
      <3> QED BY <3>2, <3>3
    <2>3. Running(p) /\ ~ missed[p] /\ current[p] /\ reloaded[p] /\ repo[0] \in Keys
             => repo[0] \in keys[p]
      BY <2>1 DEF ProcInv, KnownInv
    <2> QED BY <1>0, <1>1, <2>1, <2>2, <2>3, NumberedStay
  <1>5. TokensInv'
    BY <1>0, <1>1, TokensStay
  <1> QED BY <1>2, <1>3, <1>4, <1>5 DEF IndInv

LEMMA ChownFailsStep == ASSUME IndInv, ChownFails PROVE IndInv'
  <1> USE Constants
  <1>0. TypeOK /\ FilesInv /\ TokensInv
    BY DEF IndInv
  <1>1. /\ job \in {"created", "initialized"} /\ job' = "idle" /\ ~ Rotating'
        /\ deaths' = deaths + 1 /\ deaths < MaxDeaths
        /\ repo'[0] = None /\ \A n \in Names \ {0} : repo'[n] = repo[n]
        /\ UNCHANGED <<made, day, pc, todo, got, reloaded, began, calm, torn, keys,
                       primary, current, missed, tokens>>
    BY <1>0 DEF ChownFails, Rotating, TypeOK, loadVars
  <1>2. TypeOK'
    BY <1>0, <1>1 DEF ChownFails, TypeOK
  <1>3. FilesInv'
    BY <1>0, <1>1, FilesStay DEF FilesInv, TypeOK
  <1>4. ASSUME NEW p \in Procs PROVE ProcInv(p)'
    <2>1. ProcInv(p)
      BY DEF IndInv
    <2>2. ASSUME Loading(p) PROVE CalmLoad(p)' /\ Staged(p)'
      <3>1. CalmLoad(p) /\ Staged(p)
        BY <2>1, <2>2 DEF ProcInv, LoadInv
      <3>2. CalmLoad(p)'
        BY <1>1, <3>1 DEF CalmLoad
      <3>3. CASE began[p] = day
        BY <1>1, <3>2, <3>3 DEF Staged
      <3>4. CASE began[p] # day
        <4>1. repo'[Top'] = repo[Top]
          BY <1>0, <1>1 DEF Top, FilesInv, Numbers, TypeOK
        <4> QED BY <1>1, <3>1, <3>2, <3>4, <4>1 DEF Staged, ReadFailed
      <3> QED BY <3>2, <3>3, <3>4
    <2> QED BY <1>0, <1>1, <2>1, <2>2, NumberedStay
  <1>5. TokensInv'
    BY <1>0, <1>1, TokensStay
  <1> QED BY <1>2, <1>3, <1>4, <1>5 DEF IndInv

\* More than Days + 1 numbered files: the oldest key is more than Days days old.
LEMMA ExcessIsOld ==
  ASSUME TypeOK, NEW lo \in 1..Top, Top \in Names,
         \A n \in Names \ {0} : repo[n] # None <=> lo <= n /\ n <= Top
  PROVE  /\ Min(Numbered) = lo /\ lo \in Names \ {0}
         /\ Excess => lo + Days <= day
  <1> USE Constants
  <1>1. day \in Nat /\ lo \in Nat /\ 1 <= lo /\ lo <= Top
    BY DEF TypeOK, Top
  <1>2. \A n \in lo..Top : n \in Names \ {0}
    BY <1>1 DEF Names, Top
  <1>3. Numbered = lo..Top
    <2>1. \A n \in Numbered : n \in lo..Top
      <3> TAKE n \in Numbered
      <3>1. n \in Names \ {0} /\ repo[n] # None /\ n \in Nat
        BY DEF Numbered, Files
      <3> QED BY <1>1, <3>1 DEF Top
    <2>2. \A n \in lo..Top : n \in Numbered
      BY <1>1, <1>2 DEF Numbered, Files, Top
    <2> QED BY <2>1, <2>2
  <1>4. Min(Numbered) = lo
    <2>1. lo \in Numbered /\ \A n \in Numbered : lo <= n
      BY <1>1, <1>3
    <2>2. Numbered \in SUBSET Names /\ Numbered # {}
      BY <2>1 DEF Numbered, Files
    <2>3. Min(Numbered) \in Numbered /\ \A n \in Numbered : Min(Numbered) <= n
      BY <2>2, MinOfNames
    <2>4. Min(Numbered) \in Nat
      BY <2>2, <2>3
    <2> QED BY <1>1, <2>1, <2>3, <2>4
  <1>5. Cardinality(Numbered) = Top - lo + 1
    BY <1>1, <1>3, FS_Interval DEF Top
  <1>6. Excess => lo + Days <= day
    BY <1>1, <1>5 DEF Excess, Top
  <1> QED BY <1>1, <1>2, <1>4, <1>6

LEMMA PurgeStep == ASSUME IndInv, Purge PROVE IndInv'
  <1> USE Constants
  <1>0. TypeOK /\ FilesInv /\ TokensInv
    BY DEF IndInv
  <1>1. /\ job \in {"created", "purged"} /\ Rotating
        /\ UNCHANGED <<made, day, deaths, pc, todo, got, reloaded, began, calm, torn, keys,
                       primary, current, missed, tokens>>
    BY DEF Purge, Rotating, loadVars
  <1>2. PICK lo \in 1..Top : /\ \A n \in Names \ {0} : repo[n] # None <=> lo <= n /\ n <= Top
                             /\ day = 0 \/ lo <= day
    BY <1>0 DEF FilesInv, Numbers
  <1>3. Top \in Names /\ Top' = Top /\ day \in Nat /\ lo \in Nat
    BY <1>0, <1>1 DEF FilesInv, Numbers, Top, TypeOK
  <1>4. Min(Numbered) = lo /\ lo \in Names \ {0} /\ (Excess => lo + Days <= day)
    BY <1>0, <1>2, <1>3, ExcessIsOld
  <1>5. CASE Excess
    <2>1. job' = "purged" /\ Rotating' /\ repo' = [repo EXCEPT ![lo] = None] /\ lo + Days <= day
      BY <1>4, <1>5 DEF Purge, Rotating
    <2>2. repo'[lo] = None /\ \A n \in Names \ {lo} : repo'[n] = repo[n]
      BY <1>0, <1>4, <2>1 DEF TypeOK
    <2>3. lo < day /\ lo < Top /\ repo'[0] = repo[0] /\ repo'[Top] = repo[Top]
      BY <1>3, <1>4, <2>1, <2>2 DEF Top
    <2>4. TypeOK'
      BY <1>0, <1>1, <1>4, <2>1 DEF TypeOK
    <2>5. Numbers'
      <3>1. lo + 1 \in 1..Top' /\ lo + 1 <= day'
        <4>1. Top \in Nat /\ Top' = Top /\ day' = day
          BY <1>1, <1>3
        <4> QED BY <1>3, <2>3, <4>1
      <3>2. \A n \in Names \ {0} : repo'[n] # None <=> lo + 1 <= n /\ n <= Top'
        <4> TAKE n \in Names \ {0}
        <4>1. CASE n = lo
          BY <1>3, <2>2, <4>1
        <4>2. CASE n # lo
          BY <1>2, <1>3, <2>2, <4>2
        <4> QED BY <4>1, <4>2
      <3> QED BY <1>3, <3>1, <3>2 DEF Numbers
    <2>6. FilesInv'
      BY <1>0, <1>1, <2>1, <2>3, <2>5 DEF FilesInv
    <2>7. ASSUME NEW p \in Procs PROVE ProcInv(p)'
      <3>0. ProcInv(p) /\ ~ reloaded[p]
        BY <1>1 DEF IndInv, ProcInv, RunInv
      <3>1. LoadInv(p)'
        <4> SUFFICES ASSUME Loading(p) PROVE LoadInv(p)'
          BY <1>1 DEF LoadInv, Loading
        <4>1. HasNumbered(p) => HasNumbered(p)'
          <5> SUFFICES ASSUME HasNumbered(p), NEW n \in Names,
                              0 < n /\ n <= began[p] + 1 /\ repo'[n] # None
                       PROVE  Has(p, n)'
            BY <1>1 DEF HasNumbered
          <5>1. repo'[n] = repo[n]
            BY <2>2
          <5>2. Has(p, n)
            BY <5>1 DEF HasNumbered
          <5> QED BY <1>1, <5>1, <5>2 DEF Has
        <4>2. CalmLoad(p)'
          BY <1>1, <3>0 DEF ProcInv, LoadInv, CalmLoad
        <4>3. Staged(p)'
          <5>1. Staged(p)
            BY <3>0 DEF ProcInv, LoadInv
          <5> QED BY <1>1, <1>3, <2>1, <2>3, <5>1 DEF Staged, ReadFailed
        <4>4. ReadFailed(p)' = ReadFailed(p)
          BY <1>1 DEF ReadFailed
        <4> QED BY <1>1, <3>0, <4>1, <4>2, <4>3, <4>4 DEF ProcInv, LoadInv
      <3>2. KnownInv(p)'
        <4> SUFFICES ASSUME Running(p), ~ missed[p] PROVE KnownInv(p)'
          BY <1>1 DEF KnownInv, Running
        <4>1. /\ \A n \in Names \ {0} : repo[n] \in Keys => repo[n] \in keys[p]
              /\ current[p] => \A n \in Names \ {0} : repo[n] # Empty
          BY <3>0 DEF ProcInv, KnownInv
        <4>2. PICK n \in {day, Top} : n # 0 /\ repo[n] = primary[p] /\ (current[p] => n = Top)
          BY <3>0 DEF ProcInv, KnownInv
        <4>3. repo'[n] = primary[p]
          <5>1. n \in Names \ {lo}
            BY <1>3, <2>3 DEF Top, Names
          <5> QED BY <2>2, <4>2, <5>1
        <4>4. \A i \in Names \ {0} : repo'[i] \in Keys => repo'[i] \in keys[p]
          BY <2>2, <4>1
        <4>5. current[p] => \A i \in Names \ {0} : repo'[i] # Empty
          BY <2>2, <4>1
        <4> QED BY <1>1, <1>3, <2>1, <3>0, <4>2, <4>3, <4>4, <4>5 DEF KnownInv
      <3>3. RunInv(p)'
        BY <1>1, <3>0 DEF ProcInv, RunInv, Running, Loading
      <3> QED BY <3>1, <3>2, <3>3 DEF ProcInv
    <2>8. TokensInv'
      <3> SUFFICES ASSUME NEW token \in tokens
                   PROVE  /\ token.day <= day /\ day <= token.day + Life
                          /\ \E n \in Names \ {0} : token.day <= n /\ repo'[n] = token.key
        BY <1>1 DEF TokensInv
      <3>1. PICK n \in Names \ {0} : token.day <= n /\ repo[n] = token.key
        BY <1>0 DEF TokensInv
      <3>2. token.day <= day /\ day <= token.day + Life /\ token.day \in Nat
        BY <1>0 DEF TokensInv, TypeOK
      <3>3. n # lo
        BY <1>3, <2>1, <3>1, <3>2
      <3> QED BY <2>2, <3>1, <3>2, <3>3
    <2> QED BY <2>4, <2>6, <2>7, <2>8 DEF IndInv
  <1>6. CASE ~ Excess
    <2>1. job' = "idle" /\ UNCHANGED repo /\ ~ Rotating'
      BY <1>6 DEF Purge, Rotating
    <2>2. TypeOK'
      BY <1>0, <1>1, <2>1 DEF TypeOK
    <2>3. FilesInv'
      BY <1>0, <1>1, <2>1, FilesStay DEF FilesInv
    <2>4. ASSUME NEW p \in Procs PROVE ProcInv(p)'
      <3>1. ProcInv(p) /\ ~ reloaded[p]
        BY <1>1 DEF IndInv, ProcInv, RunInv
      <3>2. ASSUME Loading(p) PROVE CalmLoad(p)' /\ Staged(p)'
        <4>1. Staged(p) /\ CalmLoad(p)
          BY <3>1, <3>2 DEF ProcInv, LoadInv
        <4>2. CalmLoad(p)'
          BY <1>1, <4>1 DEF CalmLoad
        <4>3. Staged(p)'
          BY <1>1, <1>3, <2>1, <4>1 DEF Staged, ReadFailed
        <4> QED BY <4>2, <4>3
      <3> QED BY <1>0, <1>1, <2>1, <3>1, <3>2, NumberedStay
    <2>5. TokensInv'
      BY <1>0, <1>1, <2>1, TokensStay
    <2> QED BY <2>2, <2>3, <2>4, <2>5 DEF IndInv
  <1> QED BY <1>5, <1>6

-----------------------------------------------------------------------------
LEMMA StepInv == ASSUME IndInv, [Next]_vars PROVE IndInv'
  <1>1. CASE Rotation \/ RotationDies \/ ChownFails
    BY <1>1, PromoteStep, OpenKeyStep, CreatedStep, PurgeStep, InitBeginsStep, InitializedStep,
       RotationDiesStep, ChownFailsStep DEF Rotation
  <1>2. ASSUME NEW p \in Procs,
               \/ List(p) \/ Read(p) \/ ReadFails(p) \/ LoadSucceeds(p) \/ LoadFails(p)
               \/ ProcEnds(p) \/ MakeToken(p)
        PROVE  IndInv'
    BY <1>2, ListStep, ReadStep, ReadFailsStep, LoadSucceedsStep, LoadFailsStep, ProcEndsStep,
       MakeTokenStep
  <1>3. CASE UNCHANGED vars
    <2>1. ASSUME NEW p \in Procs PROVE ProcInv(p)'
      BY <1>3, OtherProcs DEF IndInv, vars, repoVars, loadVars
    <2> QED BY <1>3, <2>1 DEF IndInv, TypeOK, FilesInv, Numbers, Top, TokensInv, vars, repoVars, loadVars
  <1> QED BY <1>1, <1>2, <1>3 DEF Next

LEMMA AlwaysInv == Spec => []IndInv
  BY InitInv, StepInv, PTL DEF Spec

\* The types, for every number of processes, days and keys: a load that finds something
\* ends with keys, and with a primary key among them.
THEOREM TypeCorrect == Spec => []TypeOK
  BY AlwaysInv, PTL DEF IndInv

\* Every process that has missed nothing reads every living token: it knows the key of
\* every numbered file, and those of living tokens are among them.
THEOREM TokensAreReadHolds == Spec => []TokensAreRead
  <1>1. IndInv => TokensAreRead
    <2> SUFFICES ASSUME IndInv, NEW p \in Procs, NEW token \in tokens, Running(p), ~ missed[p]
                 PROVE  token.key \in keys[p]
      BY DEF TokensAreRead
    <2>1. PICK n \in Names \ {0} : repo[n] = token.key
      BY DEF IndInv, TokensInv
    <2>2. token.key \in Keys
      BY DEF IndInv, TypeOK
    <2> QED BY <2>1, <2>2 DEF IndInv, ProcInv, KnownInv
  <1> QED BY <1>1, AlwaysInv, PTL

\* Purging takes no key of a living token, however many rotations die: a rotation that
\* dies keeps a key more, and never one less.
THEOREM TokenKeysAreKeptHolds == Spec => []TokenKeysAreKept
  <1>1. IndInv => TokenKeysAreKept
    BY DEF IndInv, TokensInv, TokenKeysAreKept
  <1> QED BY <1>1, AlwaysInv, PTL
=============================================================================
