-------------------------- MODULE ResumableStream --------------------------
(***************************************************************************)
(* What a session promises to the clients that come and go while its shell *)
(* keeps running (core/application/session/session.go): a client that      *)
(* attaches is shown the most recent output, reaching back as far as the   *)
(* scrollback does, and from then on every later byte, in order, without a *)
(* hole and without a repetition, until it is detached. A client may be    *)
(* detached at any moment, and may attach again.                           *)
(***************************************************************************)
EXTENDS Integers

CONSTANTS
    Clients,
    MaxScrollback   \* bytes of recent output a session remembers

VARIABLES
    drained,    \* bytes of output the session has taken in
    shown       \* what each client has been shown: nothing, or an interval

Detached == [from |-> 0, to |-> 0, attached |-> FALSE]

\* The interval from+1 .. to of the stream, on the screen of a client.
Window(from, to) == [from |-> from, to |-> to, attached |-> TRUE]

\* The first byte the scrollback no longer holds.
Forgotten == IF drained > MaxScrollback THEN drained - MaxScrollback ELSE 0

Init ==
    /\ drained = 0
    /\ shown = [c \in Clients |-> Detached]

TakeIn ==
    /\ drained' \in Nat
    /\ drained' > drained
    /\ UNCHANGED shown

Attach(c) ==
    /\ ~shown[c].attached
    /\ shown' = [shown EXCEPT ![c] = Window(Forgotten, drained)]
    /\ UNCHANGED drained

\* The window of c is extended at its right end, never past what was drained.
Show(c) ==
    /\ shown[c].attached
    /\ \E to \in (shown[c].to + 1)..drained :
         shown' = [shown EXCEPT ![c] = Window(shown[c].from, to)]
    /\ UNCHANGED drained

Detach(c) ==
    /\ shown[c].attached
    /\ shown' = [shown EXCEPT ![c] = Detached]
    /\ UNCHANGED drained

Next ==
    \/ TakeIn
    \/ \E c \in Clients : Attach(c) \/ Show(c) \/ Detach(c)

Spec == Init /\ [][Next]_<<drained, shown>>
=============================================================================
