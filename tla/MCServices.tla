------------------------------ MODULE MCServices ------------------------------
(* Two HTTP workers, the async worker and a work queue of one or two places. *)
EXTENDS Services, TLC

MCRequest == {"send", "result1", "result2", "stop"}

Method == "send" :> "z_sendmany" @@ "stop" :> "stop"
          @@ [r \in MCRequest |-> "z_getoperationresult"]
MCCalls == Method

\* Bound: a client sends the requests in this order, without waiting for the
\* replies except before "stop" (a signal stops the node at any time).
InTurn ==
    /\ reply["result1"] # "none" => reply["send"] # "none"
    /\ reply["result2"] # "none" => reply["result1"] # "none"
    /\ reply["stop"] # "none" => reply["result2"] \in {"triggered", "sent"}
=============================================================================
