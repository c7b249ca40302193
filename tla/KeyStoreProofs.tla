--------------------------- MODULE KeyStoreProofs ---------------------------
(***************************************************************************)
(* Theorems about KeyStore, for any set of keys and any number of calls,   *)
(* failures, crashes and edits.                                            *)
(***************************************************************************)
EXTENDS KeyStore, TLAPS

\* Generate runs only where there is no key, unless a call failed before, and
\* the key it signs with is the one it told; a new key is on the disk before its
\* public half is written, a deleted one is gone.
Untouched ==
    /\ op = "none" <=> step = "done"
    /\ op = "delete" => step \in {"private", "public"}
    /\ step \in {"private", "public"} => op = "delete"
    /\ step \in {"openPublic", "writePublic"} => private = made
    /\ step = "public" => private = NoKey
    /\ server = "up" => memory = told
    /\ server = "refused" => calm = "no"
    /\ calm = "yes" /\ op = "none" => private = told
    /\ calm = "yes" /\ op = "generate" => told = NoKey

\* A key that nothing can have lost is in the file and in what will be written;
\* a key in either was put on the list or is on a line of a comment. The one
\* being removed is not written.
Listed ==
    /\ change = "none" <=> saving = "done"
    /\ change = "none" => toWrite = {} /\ comment = {}
    /\ change # "none" => key \in Keys /\ answer.key = "none"
    /\ owed \subseteq given
    /\ file \subseteq given \cup carried
    /\ Written \subseteq given \cup carried
    /\ saving # "write" => owed \subseteq file
    /\ change # "none" => owed \subseteq toWrite
    /\ change = "add" => key \in given /\ key \in toWrite
    /\ change = "remove" => key \notin Written /\ key \notin owed

IInv == TypeOK /\ Untouched /\ Listed /\ AnswersAreRight

-----------------------------------------------------------------------------

\* The initial state satisfies the invariant.
LEMMA InitIInv == Init => IInv
<1> SUFFICES ASSUME Init
             PROVE  IInv
  OBVIOUS
<1> USE DEF Init, NoAnswer, NoKey
<1>1. IdentityTypeOK
  BY DEF IdentityTypeOK, Steps
<1>2. ListTypeOK
  BY DEF ListTypeOK
<1>3. Untouched /\ Listed /\ AnswersAreRight
  BY DEF Untouched, Listed, AnswersAreRight, Written
<1> QED
  BY <1>1, <1>2, <1>3 DEF IInv, TypeOK

\* The calls of IdentityStore.
LEMMA IdentitySteps ==
  ASSUME IInv,
         \/ \E what \in {"generate", "regenerate", "delete"} : Begin(what)
         \/ IdentityStep \/ IdentityFails
  PROVE  IInv'
<1>0. TypeOK /\ IdentityTypeOK /\ ListTypeOK /\ Untouched /\ Listed /\ AnswersAreRight
  BY DEF IInv, TypeOK
<1> USE DEF Call, Fault, listVars, changeVars, historyVars
<1>1. UNCHANGED <<server, listVars>> /\ server = "up"
  BY <1>0 DEF Begin, IdentityStep, IdentityFails, TypeOK, OpenPrivate, WritePrivate,
      OpenPublic, WritePublic, RemovePrivate, RemovePublic, At
<1>a. calls' \in Nat /\ faults' \in Nat
  BY <1>0 DEF Begin, IdentityStep, IdentityFails, TypeOK
<1>2. ListTypeOK' /\ Listed' /\ AnswersAreRight'
  BY <1>0, <1>1 DEF ListTypeOK, Listed, AnswersAreRight, Written
<1>3. IdentityTypeOK' /\ Untouched'
  <2> USE KeyAssumption DEF At, Goto, IdentityDone, NoKey, Steps, IdentityTypeOK, Untouched
  <2>1. ASSUME NEW what \in {"generate", "regenerate", "delete"}, Begin(what)
        PROVE  IdentityTypeOK' /\ Untouched'
    <3>1. made' \in Nat
      BY <1>0, <2>1 DEF Begin
    <3>2. IdentityTypeOK'
      BY <1>0, <2>1, <3>1 DEF Begin
    <3>3. CASE what = "delete"
      BY <1>0, <2>1, <3>2, <3>3 DEF Begin
    <3>4. CASE what # "delete"
      BY <1>0, <2>1, <3>2, <3>4 DEF Begin
    <3> QED
      BY <3>3, <3>4
  <2>2. CASE IdentityFails
    BY <1>0, <2>2 DEF IdentityFails
  <2>3. CASE IdentityStep /\ OpenPrivate
    BY <1>0, <2>3 DEF IdentityStep, OpenPrivate
  <2>4. CASE IdentityStep /\ WritePrivate
    BY <1>0, <2>4 DEF IdentityStep, WritePrivate
  <2>5. CASE IdentityStep /\ OpenPublic
    BY <1>0, <2>5 DEF IdentityStep, OpenPublic
  <2>6. CASE IdentityStep /\ WritePublic
    BY <1>0, <2>6 DEF IdentityStep, WritePublic
  <2>7. CASE IdentityStep /\ RemovePrivate
    BY <1>0, <2>7 DEF IdentityStep, RemovePrivate
  <2>8. CASE IdentityStep /\ RemovePublic
    BY <1>0, <2>8 DEF IdentityStep, RemovePublic
  <2> QED
    BY <2>1, <2>2, <2>3, <2>4, <2>5, <2>6, <2>7, <2>8 DEF IdentityStep
<1> QED
  BY <1>0, <1>1, <1>a, <1>2, <1>3 DEF IInv, TypeOK

\* The calls of AuthorizedKeys, and edits by hand.
LEMMA ListSteps ==
  ASSUME IInv,
         \/ \E k \in Keys : Remove(k) \/ \E lines \in Comments : Add(k, lines)
         \/ OpenList \/ WriteList \/ ListFails \/ Edit
         \/ \E k \in Keys : IsAuthorized(k)
  PROVE  IInv'
<1>0. TypeOK /\ IdentityTypeOK /\ ListTypeOK /\ Untouched /\ Listed /\ AnswersAreRight
  BY DEF IInv, TypeOK
<1> USE DEF Call, Fault, ListDone, changeVars, historyVars, NoAnswer, identityVars
<1>1. UNCHANGED <<server, identityVars>> /\ calls' \in Nat /\ faults' \in Nat
  BY <1>0 DEF Add, Remove, Load, OpenList, WriteList, ListFails, Edit, IsAuthorized, TypeOK
<1>2. IdentityTypeOK' /\ Untouched'
  BY <1>0, <1>1 DEF IdentityTypeOK, Untouched
<1>3. server' # "up" => change' = "none"
  BY <1>0 DEF Add, Remove, Load, OpenList, WriteList, ListFails, Edit, IsAuthorized, TypeOK
<1>4. ListTypeOK' /\ Listed' /\ AnswersAreRight'
  <2> USE DEF ListTypeOK, Listed, AnswersAreRight, Written
  <2>1. ASSUME NEW k \in Keys, NEW lines \in Comments, Add(k, lines)
        PROVE  ListTypeOK' /\ Listed' /\ AnswersAreRight'
    BY <1>0, <2>1, KeyAssumption DEF Add, Load, Changed
  <2>7. ASSUME NEW k \in Keys, Remove(k)
        PROVE  ListTypeOK' /\ Listed' /\ AnswersAreRight'
    BY <1>0, <2>7 DEF Remove, Load, Changed
  <2>2. CASE OpenList
    BY <1>0, <2>2 DEF OpenList
  <2>3. CASE WriteList
    BY <1>0, <2>3 DEF WriteList
  <2>4. CASE ListFails
    BY <1>0, <2>4 DEF ListFails
  <2>5. CASE Edit
    BY <1>0, <2>5 DEF Edit
  <2>6. ASSUME NEW k \in Keys, IsAuthorized(k)
        PROVE  ListTypeOK' /\ Listed' /\ AnswersAreRight'
    BY <1>0, <2>6 DEF IsAuthorized
  <2> QED
    BY <2>1, <2>2, <2>3, <2>4, <2>5, <2>6, <2>7
<1> QED
  BY <1>0, <1>1, <1>2, <1>3, <1>4 DEF IInv, TypeOK

\* Crashes and starts.
LEMMA ProcessSteps ==
  ASSUME IInv, Crash \/ Start \/ RemoveByHand
  PROVE  IInv'
<1>0. TypeOK /\ IdentityTypeOK /\ ListTypeOK /\ Untouched /\ Listed /\ AnswersAreRight
  BY DEF IInv, TypeOK
<1>1. IdentityTypeOK' /\ Untouched'
  <2> USE KeyAssumption DEF IdentityDone, NoKey, Steps, IdentityTypeOK, Untouched, TypeOK
  <2>1. CASE Crash
    BY <1>0, <2>1 DEF Crash
  <2>2. CASE Start
    <3>1. CASE private = Torn
      BY <1>0, <2>2, <3>1 DEF Start
    <3>2. CASE private # Torn
      BY <1>0, <2>2, <3>2 DEF Start
    <3> QED
      BY <3>1, <3>2
  <2>3. CASE RemoveByHand
    BY <1>0, <2>3 DEF RemoveByHand
  <2> QED
    BY <2>1, <2>2, <2>3
<1>2. ListTypeOK' /\ Listed' /\ AnswersAreRight'
  <2> USE DEF listVars, changeVars, historyVars, ListDone, NoAnswer, ListTypeOK, Listed,
              Written, AnswersAreRight
  <2>1. CASE Crash
    BY <1>0, <2>1 DEF Crash
  <2>2. CASE Start \/ RemoveByHand
    BY <1>0, <2>2 DEF Start, RemoveByHand
  <2> QED
    BY <2>1, <2>2
<1>3. /\ server' \in {"up", "down", "refused"} /\ calls' \in Nat /\ faults' \in Nat
      /\ server' # "up" => op' = "none" /\ change' = "none"
  BY <1>0 DEF Crash, Start, RemoveByHand, Fault, IdentityDone, ListDone, TypeOK, listVars, changeVars, historyVars
<1> QED
  BY <1>1, <1>2, <1>3 DEF IInv, TypeOK

\* Every step preserves the invariant.
LEMMA NextIInv == IInv /\ [Next]_vars => IInv'
<1> SUFFICES ASSUME IInv, [Next]_vars
             PROVE  IInv'
  OBVIOUS
<1>1. CASE Next
  BY <1>1, IdentitySteps, ListSteps, ProcessSteps DEF Next
<1>2. CASE UNCHANGED vars
  BY <1>2 DEF IInv, TypeOK, IdentityTypeOK, ListTypeOK, Untouched, Listed,
      AnswersAreRight, Written, vars, identityVars, listVars, changeVars, historyVars
<1> QED
  BY <1>1, <1>2

LEMMA Invariance == Spec => []IInv
BY InitIInv, NextIInv, PTL DEF Spec

-----------------------------------------------------------------------------

\* Types; the identity in memory is always one that was generated.
THEOREM TypeCorrect == Spec => []TypeOK
<1>1. IInv => TypeOK
  BY DEF IInv
<1> QED
  BY <1>1, Invariance, PTL

\* The server signs with the identity its user was told last, and finds it
\* again after a crash, unless a call failed; Generate overwrites nothing.
THEOREM IdentityCorrect == Spec => []IdentityIsDurable
<1>1. IInv => IdentityIsDurable
  BY DEF IInv, Untouched, IdentityIsDurable
<1> QED
  BY <1>1, Invariance, PTL

\* IsAuthorized lets in only who was put on the list, as a key or on a line of a
\* comment, and turns away nobody who was and whose entry nothing can have lost.
THEOREM AnswersCorrect == Spec => []AnswersAreRight
<1>1. IInv => AnswersAreRight
  BY DEF IInv
<1> QED
  BY <1>1, Invariance, PTL

\* As long as comments are of one line, IsAuthorized lets in only who was put on
\* the list as a key.
THEOREM OneLineCorrect ==
  ASSUME OneLineComments
  PROVE  Spec => []OnlyGivenKeys
<1> DEFINE Nothing == carried = {}
<1>1. Init => Nothing
  BY DEF Init
<1>2. Nothing /\ [Next]_vars => Nothing'
  <2> SUFFICES ASSUME Nothing, [Next]_vars
               PROVE  carried' = {}
    OBVIOUS
  <2> USE DEF listVars, historyVars
  <2>1. CASE \E k \in Keys, lines \in Comments : Add(k, lines)
    BY <2>1 DEF Add, Load, OneLineComments
  <2>2. CASE \E k \in Keys : Remove(k) \/ IsAuthorized(k)
    BY <2>2 DEF Remove, Load, IsAuthorized
  <2>3. CASE OpenList \/ WriteList \/ ListFails \/ Edit
    BY <2>3 DEF OpenList, WriteList, ListFails, Edit
  <2>4. CASE \/ \E what \in {"generate", "regenerate", "delete"} : Begin(what)
             \/ IdentityStep \/ IdentityFails
    BY <2>4 DEF Begin, IdentityStep, IdentityFails
  <2>5. CASE Crash \/ Start \/ RemoveByHand
    BY <2>5 DEF Crash, Start, RemoveByHand
  <2>6. CASE UNCHANGED vars
    BY <2>6 DEF vars
  <2> QED
    BY <2>1, <2>2, <2>3, <2>4, <2>5, <2>6 DEF Next
<1>3. AnswersAreRight /\ Nothing => OnlyGivenKeys
  BY DEF AnswersAreRight, OnlyGivenKeys
<1> QED
  BY <1>1, <1>2, <1>3, AnswersCorrect, PTL DEF Spec
=============================================================================
