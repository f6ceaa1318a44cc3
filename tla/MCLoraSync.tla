----------------------------- MODULE MCLoraSync -----------------------------
(* The TLC instance of LoraSync: an author, a neighbour that asks for what it
   missed, and one that only receives. *)
EXTENDS LoraSync

CONSTANTS n1, n2, n3

MCAroundAuthor == {{n1, n2}, {n1, n3}}

\* What n3 does nobody else can tell, so it takes its steps as soon as it can.
MCListening == air[n1][n3] # <<>> \/ events[n3] # <<>> \/ n3 \in ticking
MCListen ==
  \/ Hear(n1, n3) \/ LoseFrame(n1, n3)
  \/ BeginTick(n3) \/ Ingest(n3) \/ FinishTick(n3)

\* Bound: more than three events only where no more than one thing fails.
MCFewFaults == losses + faults <= 1 \/ Watermark(log[n1][n1]) <= 3

MCNext == IF MCListening THEN MCListen ELSE Next
MCSpec == Init /\ [][MCNext /\ MCFewFaults']_vars /\ Fairness
=============================================================================
