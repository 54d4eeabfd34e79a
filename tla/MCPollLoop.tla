----------------------------- MODULE MCPollLoop -----------------------------
(* Instances of PollLoop for TLC. *)
EXTENDS PollLoop

\* Notification settings: all off, all on, finish messages without repeats.
MCSettings == {{}, Switches, {"finish"}}
MCNone == {{}}
MCFinishOnly == {{"finish"}}

\* For the properties of the card alone: with every switch off neither the bot
\* nor the maintenance flag has an influence on it, so both stay as they start.
CardNext ==
  Poll \/ RefreshRead \/ RefreshUpsert \/ PrinterMoves \/ LinkFlips \/ Restart
CardInit == Init /\ bot = TRUE /\ maint = FALSE
CardSpec == CardInit /\ [][CardNext]_vars

\* Both threads are `while True` loops that no exception leaves.
FairCardSpec == CardSpec /\ WF_vars(Poll) /\ WF_vars(RefreshUpsert)
=============================================================================
