------------------------------- MODULE KeyStore -------------------------------
(***************************************************************************)
(* The keys of a server (core/infrastructure/remoteterm/keys.go): its own  *)
(* key pair, IdentityStore, in two files, and the list of the keys it lets *)
(* in, AuthorizedKeys, in a third. Both are changed through the HTTP       *)
(* handlers of apps/web/server.go; each has a mutex of its own, held for   *)
(* the whole of a call, so a call is a sequence of steps on the disk that  *)
(* no other call of the same store sees, but a crash does.                 *)
(*                                                                         *)
(* os.WriteFile truncates and then writes. Own keys are numbered in the    *)
(* order they are generated. Of the list, only the set of keys it allows   *)
(* is kept; lines that do not parse allow nothing. A comment is the set of *)
(* the keys that stand on its further lines: Add cuts the white space at   *)
(* its ends only, save writes it as it is, and load then finds every one   *)
(* of its lines as a line of the file.                                     *)
(***************************************************************************)
EXTENDS Integers

CONSTANTS
    Keys,       \* public keys of other servers
    Comments,   \* what Add is given as comment: the keys on its further lines
    Torn,       \* a file without a key in it
    MaxMade,    \* bound: own keys ever generated
    MaxCalls,   \* bound: calls that change something
    MaxFaults   \* bound: failing reads and writes, crashes, edits by hand

ASSUME KeyAssumption ==
    /\ Comments \subseteq SUBSET Keys
    /\ Torn \notin Nat
    /\ MaxMade \in Nat /\ MaxCalls \in Nat /\ MaxFaults \in Nat

VARIABLES
    server,     \* the process
    memory,     \* IdentityStore.id
    private,    \* remote_key
    public,     \* remote_key.pub
    made,       \* keys generated so far
    op,         \* what the holder of IdentityStore.mu does
    step,       \* and what it does next
    told,       \* history: the identity the user was told last
    calm,       \* history: "yes" if no call has failed since then
    file,       \* the keys remote_authorized_keys allows
    change,     \* what the holder of AuthorizedKeys.mu does
    key,        \* for which key
    comment,    \* and with which comment
    toWrite,    \* the keys of the entries it is going to write
    saving,     \* where it is
    given,      \* history: keys put on the list and not removed
    carried,    \* history: keys on a line of a comment and not removed
    owed,       \* history: those nothing can have lost
    answer,     \* the last answer of IsAuthorized
    calls, faults

identityVars == <<memory, private, public, made, op, step, told, calm>>
changeVars == <<change, key, comment, toWrite, saving>>
historyVars == <<given, carried, owed>>
listVars == <<file, changeVars, historyVars, answer>>
vars == <<server, identityVars, listVars, calls, faults>>

\* The absent file, and the nil pointer.
NoKey == 0

NoAnswer == [key |-> "none", says |-> "no"]

Init ==
    /\ server = "up"
    /\ memory = NoKey /\ private = NoKey /\ public = NoKey
    /\ made = 0 /\ op = "none" /\ step = "done"
    /\ told = NoKey /\ calm = "yes"
    /\ file = {}
    /\ change = "none" /\ key = "none" /\ comment = {} /\ toWrite = {} /\ saving = "done"
    /\ given = {} /\ carried = {} /\ owed = {} /\ answer = NoAnswer
    /\ calls = 0 /\ faults = 0

Fault == faults < MaxFaults /\ faults' = faults + 1
Call == server = "up" /\ calls < MaxCalls /\ calls' = calls + 1

-----------------------------------------------------------------------------
(* IdentityStore: Generate, Regenerate, Delete.                            *)

\* Mutant: Generate that does not look whether there is a key.
BeginUnchecked(what) ==
    /\ Call /\ op = "none" /\ op' = what
    /\ IF what = "delete"
          THEN step' = "private" /\ UNCHANGED made
          ELSE /\ made < MaxMade
               /\ made' = made + 1
               /\ step' = "openPrivate"
    /\ UNCHANGED <<server, memory, private, public, told, calm, listVars, faults>>

\* A call that finds the mutex free; Generate refuses when there is a key.
Begin(what) ==
    /\ Call /\ op = "none" /\ op' = what
    /\ what = "generate" => memory = NoKey
    /\ IF what = "delete"
          THEN step' = "private" /\ UNCHANGED made
          ELSE /\ made < MaxMade
               /\ made' = made + 1
               /\ step' = "openPrivate"
    /\ UNCHANGED <<server, memory, private, public, told, calm, listVars, faults>>

At(s) == server = "up" /\ step = s
Goto(s) == step' = s /\ UNCHANGED op
IdentityDone == op' = "none" /\ step' = "done"

\* generateIdentity: the private key, then the public one.
OpenPrivate ==
    /\ At("openPrivate") /\ Goto("writePrivate")
    /\ private' = Torn
    /\ UNCHANGED <<memory, public, told, calm>>

WritePrivate ==
    /\ At("writePrivate") /\ Goto("openPublic")
    /\ private' = made
    /\ UNCHANGED <<memory, public, told, calm>>

OpenPublic ==
    /\ At("openPublic") /\ Goto("writePublic")
    /\ public' = Torn
    /\ UNCHANGED <<memory, private, told, calm>>

WritePublic ==
    /\ At("writePublic") /\ IdentityDone
    /\ public' = made
    /\ memory' = made
    /\ told' = made /\ calm' = "yes"
    /\ UNCHANGED private

\* deleteIdentity: in the same order.
RemovePrivate ==
    /\ At("private") /\ op = "delete" /\ Goto("public")
    /\ private' = NoKey
    /\ UNCHANGED <<memory, public, told, calm>>

RemovePublic ==
    /\ At("public") /\ IdentityDone
    /\ public' = NoKey
    /\ memory' = NoKey
    /\ told' = NoKey /\ calm' = "yes"
    /\ UNCHANGED private

\* A step on the disk that fails ends the call; memory stays as it was.
IdentityFails ==
    /\ server = "up" /\ op # "none"
    /\ Fault
    /\ IdentityDone /\ calm' = "no"
    /\ UNCHANGED <<server, memory, private, public, made, told, listVars, calls>>

IdentityStep ==
    /\ \/ OpenPrivate \/ WritePrivate \/ OpenPublic \/ WritePublic
       \/ RemovePrivate \/ RemovePublic
    /\ UNCHANGED <<server, made, listVars, calls, faults>>

-----------------------------------------------------------------------------
(* AuthorizedKeys: Add, Remove, IsAuthorized, and edits by hand.           *)

\* A comment is not part of what it changes, until it is written.
Changed(what, k, keys) == IF what = "add" THEN keys \cup {k} ELSE keys \ {k}

\* load(), of the file or, if it cannot be read, of an empty list. The comments
\* it finds are of one line.
Load(what, k, lines) ==
    /\ Call /\ change = "none"
    /\ change' = what /\ key' = k /\ comment' = lines /\ saving' = "open"
    /\ \/ /\ toWrite' = Changed(what, k, file)
          /\ owed' = IF what = "remove" THEN owed \ {k} ELSE owed
          /\ UNCHANGED faults
       \/ /\ Fault
          /\ toWrite' = Changed(what, k, {})
          /\ owed' = {}
    /\ given' = IF what = "add" THEN given \cup {k} ELSE given
    /\ carried' = carried \cup lines
    /\ answer' = NoAnswer
    /\ UNCHANGED <<server, identityVars, file>>

Add(k, lines) == Load("add", k, lines)
Remove(k) == Load("remove", k, {})

\* The lines that save() makes of the entries are those of their comments, too.
Written == toWrite \cup comment

ListDone ==
    /\ change' = "none" /\ key' = "none" /\ comment' = {} /\ toWrite' = {}
    /\ saving' = "done"

\* save(): the file is truncated,
OpenList ==
    /\ server = "up" /\ saving = "open"
    /\ file' = {}
    /\ saving' = "write"
    /\ UNCHANGED <<server, identityVars, change, key, comment, toWrite, historyVars,
                   answer, calls, faults>>

\* and written.
WriteList ==
    /\ server = "up" /\ saving = "write"
    /\ file' = Written
    /\ ListDone
    /\ IF change = "remove"
          THEN /\ given' = given \ {key} /\ carried' = carried \ {key}
               /\ UNCHANGED owed
          ELSE /\ owed' = owed \cup {key}
               /\ UNCHANGED <<given, carried>>
    /\ UNCHANGED <<server, identityVars, answer, calls, faults>>

\* Opening the file fails and leaves it alone, or writing it fails half way.
ListFails ==
    /\ server = "up" /\ change # "none"
    /\ Fault
    /\ IF saving = "open"
          THEN UNCHANGED <<file, owed>>
          ELSE owed' = {} /\ \E part \in SUBSET Written : file' = part
    /\ ListDone
    /\ UNCHANGED <<server, identityVars, given, carried, answer, calls>>

\* Mutant: List without the mutex.
IsAuthorizedUnlocked(k) ==
    /\ server = "up"
    /\ \/ /\ answer' = [key |-> k, says |-> IF k \in file THEN "yes" ELSE "no"]
          /\ UNCHANGED faults
       \/ Fault /\ answer' = NoAnswer
    /\ UNCHANGED <<server, identityVars, file, changeVars, historyVars, calls>>

\* IsAuthorized reads the file again, under the mutex; a failing read is a no.
IsAuthorized(k) ==
    /\ server = "up" /\ change = "none"
    /\ \/ /\ answer' = [key |-> k, says |-> IF k \in file THEN "yes" ELSE "no"]
          /\ UNCHANGED faults
       \/ Fault /\ answer' = NoAnswer
    /\ UNCHANGED <<server, identityVars, file, changeVars, historyVars, calls>>

\* Somebody edits the file, while no call is writing it.
Edit ==
    /\ Fault /\ saving # "write"
    /\ \E keys \in SUBSET Keys :
          /\ file' = keys
          /\ given' = IF change = "none" THEN keys ELSE given \cup keys
          /\ carried' = IF change = "none" THEN {} ELSE carried
          /\ owed' = IF change = "none" THEN keys ELSE owed \cap keys
    /\ answer' = NoAnswer
    /\ UNCHANGED <<server, identityVars, changeVars, calls>>

-----------------------------------------------------------------------------
(* The process.                                                            *)

\* It dies; what a write had truncated holds any part of what was to come.
Crash ==
    /\ server = "up"
    /\ Fault
    /\ server' = "down"
    /\ IdentityDone /\ calm' = IF op = "none" THEN calm ELSE "no"
    /\ IF saving = "write"
          THEN owed' = {} /\ \E part \in SUBSET Written : file' = part
          ELSE UNCHANGED <<file, owed>>
    /\ ListDone /\ answer' = NoAnswer
    /\ UNCHANGED <<memory, private, public, made, told, given, carried, calls>>

\* Mutant: NewIdentityStore that does not look at the error of loadIdentity.
StartAnyway ==
    /\ server = "down"
    /\ server' = "up"
    /\ memory' = private /\ told' = private /\ calm' = "yes"
    /\ UNCHANGED <<private, public, made, op, step, listVars, calls, faults>>

\* NewIdentityStore: a file without a key stops the server from starting.
Start ==
    /\ server = "down"
    /\ IF private = Torn
          THEN server' = "refused" /\ UNCHANGED <<memory, told, calm>>
          ELSE /\ server' = "up"
               /\ memory' = private
               /\ told' = private /\ calm' = "yes"
    /\ UNCHANGED <<private, public, made, op, step, listVars, calls, faults>>

\* Until somebody removes that file.
RemoveByHand ==
    /\ server = "refused"
    /\ server' = "down"
    /\ private' = NoKey
    /\ UNCHANGED <<memory, public, made, op, step, told, calm, listVars, calls, faults>>

Next ==
    \/ \E what \in {"generate", "regenerate", "delete"} : Begin(what)
    \/ IdentityStep \/ IdentityFails
    \/ \E k \in Keys : Remove(k) \/ \E lines \in Comments : Add(k, lines)
    \/ OpenList \/ WriteList \/ ListFails \/ Edit
    \/ \E k \in Keys : IsAuthorized(k)
    \/ Crash \/ Start \/ RemoveByHand

Spec == Init /\ [][Next]_vars

-----------------------------------------------------------------------------
(* Properties.                                                             *)

Steps == {"done", "openPrivate", "writePrivate", "openPublic", "writePublic",
          "private", "public"}

\* The identity in memory is never a torn one.
IdentityTypeOK ==
    /\ made \in Nat /\ memory \in Nat /\ told \in Nat
    /\ private \in Nat \cup {Torn} /\ public \in Nat \cup {Torn}
    /\ op \in {"none", "generate", "regenerate", "delete"} /\ step \in Steps
    /\ calm \in {"yes", "no"}

ListTypeOK ==
    /\ file \subseteq Keys
    /\ given \subseteq Keys /\ carried \subseteq Keys /\ owed \subseteq Keys
    /\ change \in {"none", "add", "remove"} /\ saving \in {"done", "open", "write"}
    /\ key \in Keys \cup {"none"} /\ comment \subseteq Keys /\ toWrite \subseteq Keys
    /\ answer \in [key: Keys \cup {"none"}, says: {"yes", "no"}]

\* Types; the mutexes are free when the process does not run.
TypeOK ==
    /\ server \in {"up", "down", "refused"}
    /\ IdentityTypeOK /\ ListTypeOK
    /\ calls \in Nat /\ faults \in Nat
    /\ server # "up" => op = "none" /\ change = "none"

\* "The current key is cached in memory and kept in sync with disk", as far as
\* it is: a running server signs with the identity its user was told last, and
\* unless a call failed or was cut short since, a restart finds that identity;
\* then Generate has nothing to overwrite (keys.go, lines 118 to 186).
IdentityIsDurable ==
    /\ server = "up" => memory = told
    /\ calm = "yes" /\ op = "none" => private = told
    /\ calm = "yes" /\ op = "generate" => told = NoKey

\* IsAuthorized lets nobody in whose key was not put on the list, itself or on
\* a line of a comment, or has been removed, whatever fails; and it turns nobody
\* away whose key was added, although the file is rewritten by other calls,
\* unless a read or a write failed, the process died while writing or somebody
\* edited the file.
AnswersAreRight ==
    answer.key # "none" =>
        /\ answer.says = "yes" => answer.key \in given \cup carried
        /\ answer.key \in owed => answer.says = "yes"

\* Comments of one line, which is what the page sends, carry no key.
OneLineComments == Comments \subseteq {{}}

\* Then nobody is let in but for a key that was put on the list itself.
OnlyGivenKeys == answer.key # "none" /\ answer.says = "yes" => answer.key \in given

=============================================================================
