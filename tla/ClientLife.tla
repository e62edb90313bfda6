----------------------------- MODULE ClientLife -----------------------------
(***************************************************************************)
(* What the life of a struct client is meant to be: accepted, read from,   *)
(* sent to, handed back, and round again, with nothing skipped.  It is     *)
(* freed only while it is idle in the hands of the main thread, or when    *)
(* the process ends.                                                       *)
(***************************************************************************)
CONSTANT Clients
VARIABLES
  up,     \* the process runs
  phase   \* where each client is in its life
vars == <<up, phase>>

Moves == {
  <<"free", "idle">>,           \* allocated
  <<"idle", "accepting">>,      \* AcceptEx() posted
  <<"accepting", "accepted">>,
  <<"accepted", "reading">>,    \* WSARecv() posted
  <<"reading", "readable">>,
  <<"readable", "sending">>,    \* TransmitFile() posted
  <<"sending", "sent">>,
  <<"accepted", "returned">>,   \* set-up failed
  <<"readable", "returned">>,   \* nothing to read, or no reply posted
  <<"sent", "returned">>,
  <<"returned", "idle">>,       \* the main thread has it again
  <<"idle", "free">> }

\* Phases in which the client is only a pointer in a message.
InMessages == {"accepted", "readable", "sent", "returned"}

Init == up = TRUE /\ phase = [c \in Clients |-> "free"]

Stays(c) == phase'[c] = phase[c]

\* One client moves on.
Advance ==
  /\ up /\ up'
  /\ \E c \in Clients :
       /\ <<phase[c], phase'[c]>> \in Moves
       /\ \A d \in Clients \ {c} : Stays(d)

\* The messages of some clients go nowhere.
Lose ==
  /\ up /\ up'
  /\ \A c \in Clients :
       Stays(c) \/ (phase[c] \in InMessages /\ phase'[c] = "lost")

\* The process ends: a client is freed, unless it was lost track of.
Exit ==
  /\ up /\ ~up'
  /\ \A c \in Clients :
       phase'[c] = "free" \/ (phase[c] # "free" /\ phase'[c] = "lost")

Next == Advance \/ Lose \/ Exit

Spec == Init /\ [][Next]_vars
=============================================================================
