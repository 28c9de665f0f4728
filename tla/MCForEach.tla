------------------------------ MODULE MCForEach ------------------------------
(***************************************************************************)
(* A phase that asks for several jobs, then one that asks for one: two     *)
(* calls of for_each by one caller, the second on the serial path.         *)
(***************************************************************************)
EXTENDS ForEach

CONSTANTS Begin1, End1      \* the range of the second call

VARIABLES next1, claimed1, spawned1, pc1, worker1, cur1, last1, calls1, returned1, joined1

vars1 == <<next1, claimed1, spawned1, pc1, worker1, cur1, last1, calls1, returned1, joined1>>

OneJob == INSTANCE ForEach WITH
  Begin <- Begin1, End <- End1, Jobs <- 1,
  next <- next1, claimed <- claimed1, spawned <- spawned1, pc <- pc1,
  worker <- worker1, cur <- cur1, last <- last1, calls <- calls1,
  returned <- returned1, joined <- joined1

MCInit == Init /\ OneJob!Init

FirstCall == Next /\ UNCHANGED vars1
SecondCall == joined /\ OneJob!Next /\ UNCHANGED vars

MCSpec ==
  /\ MCInit /\ [][FirstCall \/ SecondCall]_<<vars, vars1>>
  /\ Fairness /\ WF_vars1(SecondCall)

\* Both calls return.
BothReturn == Returns /\ OneJob!Returns
=============================================================================
