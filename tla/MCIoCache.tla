----------------------------- MODULE MCIoCache -----------------------------
(* Instances of IoCache for TLC.                                           *)
EXTENDS IoCache, TLC

CONSTANTS poll, opc, di, do

Get(i) == [kind |-> "get", item |-> i]
Set(i) == [kind |-> "set", item |-> i]

\* The calls the firmware makes.  io_polling_task sets the inputs and the
\* channels, the OPC UA callbacks get both words and set the outputs.
ProgramCalls ==
    poll :> {Set(i) : i \in {di} \cup Channels} @@ opc :> {Get(di), Get(do), Set(do)}

\* The whole interface: both tasks set one word, one of them reads it, getters of
\* both channels and of an illegal one, the update of all channels.
WholeApi ==
    poll :> {Set(di), Set(1), NoCall, NullCall} @@
    opc :> {Get(di), Set(di), Get(0), Get(1), Get(2), Set(-1)}
=============================================================================
