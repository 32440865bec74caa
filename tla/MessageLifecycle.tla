-------------------------- MODULE MessageLifecycle --------------------------
(***************************************************************************)
(* What the reader is promised about a message they send (ircx-ipc:        *)
(* model.rs, Delivery).  A message that has been said is Pending, a        *)
(* Pending one is settled in the end, and what has been settled is never   *)
(* pending again.  Sent is the terminal state on a connection that does    *)
(* not echo; on one that does, an echo or a refusal may still follow it.   *)
(***************************************************************************)
CONSTANT Messages  \* everything the reader will ever say

VARIABLES
    delivery,
    echoes     \* whether the connection echoes what the network accepts

States == {"Unsaid", "Pending", "Sent", "Delivered", "Failed"}

Moves ==
    {<<"Unsaid", "Pending">>,
     <<"Pending", "Sent">>, <<"Pending", "Delivered">>, <<"Pending", "Failed">>}
    \cup IF echoes THEN {<<"Sent", "Delivered">>, <<"Sent", "Failed">>} ELSE {}

Init == delivery = [m \in Messages |-> "Unsaid"]

\* One step may settle many messages: a write mark, or a connection ending.
Next ==
    /\ delivery' \in [Messages -> States]
    /\ \A m \in Messages :
          delivery'[m] # delivery[m] => <<delivery[m], delivery'[m]>> \in Moves

Settle(m) == Next /\ delivery[m] = "Pending" /\ delivery'[m] # "Pending"

Spec == Init /\ [][Next]_delivery /\ \A m \in Messages : WF_delivery(Settle(m))

=============================================================================
