------------------------------ MODULE Channels ------------------------------
(***************************************************************************)
(* What the connections of a service promise (DAEMON-SPEC 6.2, ABI-SPEC    *)
(* 6.2): a connection carries batches numbered in the order of emission,   *)
(* each at most once.  A lossless one delivers them in that order and      *)
(* loses one only with its receiver.  A fresh one may lose a batch for a   *)
(* newer one and may deliver out of order, but while both ends live the    *)
(* newest batch is not lost.  Any other connection may lose any batch.     *)
(***************************************************************************)
EXTENDS Integers

CONSTANTS
    Conn,      \* the connections
    Serial,    \* batch numbers
    Lossless,  \* the connections that wait for room
    Fresh      \* the connections that drop their oldest

VARIABLES
    state,      \* state[c][n]: what became of batch n of connection c
    receiving,  \* the connections whose receiver is there
    sending     \* the connections whose emitter is there

vars == <<state, receiving, sending>>

States == {"unsent", "underway", "arrived", "lost"}

Init ==
    /\ state = [c \in Conn |-> [n \in Serial |-> "unsent"]]
    /\ receiving = Conn
    /\ sending = Conn

Goes(c, n, s, t) == state[c][n] = s /\ state'[c][n] = t

\* An emission: newer than everything the connection ever carried.
Accept(c, n) ==
    /\ Goes(c, n, "unsent", "underway")
    /\ c \in sending
    /\ \A m \in Serial : m > n => state[c][m] = "unsent"

\* The receiver takes the batch.
Arrive(c, n) ==
    /\ Goes(c, n, "underway", "arrived")
    /\ c \in receiving
    /\ c \in Lossless => \A m \in Serial : m < n => state[c][m] # "underway"

\* The batch is lost.
Lose(c, n) ==
    /\ Goes(c, n, "underway", "lost")
    /\ c \in Lossless => c \notin receiving'
    /\ c \in Fresh => \/ c \notin receiving' \cap sending'
                      \/ \E m \in Serial : m > n /\ state'[c][m] # "unsent"

\* One callback accepts several batches and one death loses several.
Next ==
    /\ receiving' \subseteq receiving
    /\ sending' \subseteq sending
    /\ state' \in [Conn -> [Serial -> States]]
    /\ \A c \in Conn, n \in Serial :
          \/ state'[c][n] = state[c][n]
          \/ Accept(c, n) \/ Arrive(c, n) \/ Lose(c, n)

Spec == Init /\ [][Next]_vars
=============================================================================
