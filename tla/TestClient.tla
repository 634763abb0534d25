----------------------------- MODULE TestClient -----------------------------
(***************************************************************************)
(* The test client, TestOPCUAclient/test_counter8.c, against the tags of   *)
(* components/model/model.c it exercises: a counter that counts its reads, *)
(* a loopback register, and the discrete outputs.                          *)
(*                                                                         *)
(* A cycle writes the square wave and a word counter and reads nine tags;  *)
(* the results of the writes are ignored, those of the reads tallied.  A   *)
(* key ends the loop and starts the clean-up.  Every call of the client    *)
(* library waits for its answer; when none comes in time the library       *)
(* closes the channel for good, and every later call fails at once.  The   *)
(* server executes a request it has received even if nobody waits for it.  *)
(* The network may lose a request or an answer, the board may be reset.    *)
(*                                                                         *)
(* One client, not verbose, connected.  Times are left out.                *)
(***************************************************************************)
EXTENDS Integers

CONSTANTS
    WordModulus,            \* 2^16: values of a UInt16
    MaxCycles, MaxResets    \* bounds of the model

Word == 0..(WordModulus - 1)
Tags == 0..8                        \* tags[]
AdcTags == 5..8
Steps == 0..12                      \* the calls: of a cycle, of the clean-up
None == [op |-> "none", tag |-> 0, word |-> 0]
Message == [op : {"none", "read", "write", "good"}, tag : Tags, word : Word]

ASSUME WordAssumption == WordModulus \in Nat \ {0}
ASSUME BoundsAssumption == MaxCycles \in Nat /\ MaxResets \in Nat

VARIABLES
    pc, step,       \* control point, call to make or under way
    key,            \* has a key been pressed?
    word, square,   \* word_counter, square_state
    cycles,         \* cycle_count
    reads, errors,  \* read_count and error_count of each tag
    adcReads, adcErrors,
    open,           \* is the client's secure channel open?
    request, reply, \* on their way
    session,        \* does the server know the client's session?
    counter, loopIn, loopOut, outputs,  \* of the server
    resets,         \* how many so far
    written         \* history: writes executed for the client

tally == <<reads, errors, adcReads, adcErrors>>
client == <<pc, step, word, square, cycles, tally, open>>
board == <<session, counter, loopIn, loopOut, outputs, written>>
vars == <<client, key, request, reply, board, resets>>

TypeOK ==
    /\ pc \in {"loop", "send", "wait", "done"} /\ step \in Steps
    /\ key \in BOOLEAN /\ open \in BOOLEAN /\ session \in BOOLEAN
    /\ word \in Word /\ square \in Word /\ cycles \in 0..MaxCycles
    /\ reads \in [Tags -> 0..MaxCycles] /\ errors \in [Tags -> 0..MaxCycles]
    /\ adcReads \in 0..(4 * MaxCycles) /\ adcErrors \in 0..(4 * MaxCycles)
    /\ request \in Message /\ reply \in Message
    /\ counter \in Word /\ loopIn \in Word /\ loopOut \in Word /\ outputs \in Word
    /\ resets \in 0..MaxResets /\ written \in 0..(2 * MaxCycles + 2)

-----------------------------------------------------------------------------
Init ==
    /\ pc = "loop" /\ step = 0 /\ key = FALSE
    /\ word = 0 /\ square = 0 /\ cycles = 0
    /\ reads = [i \in Tags |-> 0] /\ errors = [i \in Tags |-> 0]
    /\ adcReads = 0 /\ adcErrors = 0
    /\ open = TRUE /\ session = TRUE /\ request = None /\ reply = None
    /\ counter = 0 /\ loopIn = 0 /\ loopOut = 0 /\ outputs = 0
    /\ resets = 0 /\ written = 0

PressKey ==
    /\ ~key /\ key' = TRUE
    /\ UNCHANGED <<client, request, reply, board, resets>>

\* while(!kbhit()): another cycle, or the clean-up.
Turn ==
    /\ pc = "loop"
    /\ \/ /\ ~key /\ cycles < MaxCycles
          /\ word' = (word + 1) % WordModulus
          /\ step' = 0
       \/ key /\ step' = 11 /\ UNCHANGED word
    /\ pc' = "send"
    /\ UNCHANGED <<square, cycles, tally, open, key, request, reply, board, resets>>

\* Mutant of RequestOf: the clean-up writes the square wave once more.
RequestOfNoReset(n) ==
    CASE n \in {0, 11} -> [op |-> "write", tag |-> 4, word |-> square]
      [] n \in {1, 12} -> [op |-> "write", tag |-> 1, word |-> word]
      [] OTHER -> [op |-> "read", tag |-> n - 2, word |-> 0]

\* The two writes that follow the loop.
CleanUp(n) == IF n = 11 THEN [op |-> "write", tag |-> 4, word |-> 0]
                        ELSE [op |-> "write", tag |-> 1, word |-> word]

\* The n-th call: the two writes of a cycle, its nine reads, the clean-up.
RequestOf(n) ==
    CASE n = 0 -> [op |-> "write", tag |-> 4, word |-> square]
      [] n = 1 -> [op |-> "write", tag |-> 1, word |-> word]
      [] n \in {11, 12} -> CleanUp(n)
      [] OTHER -> [op |-> "read", tag |-> n - 2, word |-> 0]

\* sendSymmetricServiceRequest.
Send ==
    /\ pc = "send" /\ open
    /\ request' = RequestOf(step)
    /\ pc' = "wait"
    /\ UNCHANGED <<step, word, square, cycles, tally, open, key, reply, board, resets>>

\* Mutant of Count: a failed ADC read is counted once.
CountAdcErrorsOnce(good) ==
    LET i == step - 2 IN
    /\ reads' = [reads EXCEPT ![i] = IF good THEN @ + 1 ELSE @]
    /\ errors' = [errors EXCEPT ![i] = IF good THEN @ ELSE @ + 1]
    /\ adcReads' = IF good /\ i \in AdcTags THEN adcReads + 1 ELSE adcReads
    /\ adcErrors' = IF ~good /\ i = 5 THEN adcErrors + 1 ELSE adcErrors

\* The statistics of a read.
Count(good) ==
    LET i == step - 2 IN
    /\ reads' = [reads EXCEPT ![i] = IF good THEN @ + 1 ELSE @]
    /\ errors' = [errors EXCEPT ![i] = IF good THEN @ ELSE @ + 1]
    /\ adcReads' = IF good /\ i \in AdcTags THEN adcReads + 1 ELSE adcReads
    /\ adcErrors' = IF ~good /\ i \in AdcTags THEN adcErrors + 1 ELSE adcErrors

\* A call has returned: reads are counted, the next call follows; after the
\* last of a cycle the wave is toggled (~), after the last of all it is over.
Settle(good) ==
    /\ IF step \in 2..10 THEN Count(good) ELSE UNCHANGED tally
    /\ pc' = CASE step = 10 -> "loop" [] step = 12 -> "done" [] OTHER -> "send"
    /\ step' = IF step \in {10, 12} THEN step ELSE step + 1
    /\ cycles' = IF step = 10 THEN cycles + 1 ELSE cycles
    /\ square' = IF step = 10 THEN WordModulus - 1 - square ELSE square
    /\ UNCHANGED <<word, key, board, resets>>

\* Mutant of Refuse: the client library reconnects.
RefuseReconnects ==
    /\ pc = "send" /\ ~open
    /\ open' = TRUE
    /\ UNCHANGED <<pc, step, word, square, cycles, tally, key, request, reply, board, resets>>

\* __UA_Client_Service on a channel that is not open: BADCONNECTIONCLOSED.
Refuse ==
    /\ pc = "send" /\ ~open
    /\ Settle(FALSE)
    /\ UNCHANGED <<open, request, reply>>

\* receiveResponse finds the answer.
Receive ==
    /\ pc = "wait" /\ reply # None
    /\ Settle(TRUE)
    /\ reply' = None
    /\ UNCHANGED <<open, request>>

\* Mutant of TimeOut: the request is sent again.
TimeOutRetries ==
    /\ pc = "wait" /\ pc' = "send"
    /\ reply' = None
    /\ UNCHANGED <<step, word, square, cycles, tally, open, key, request, board, resets>>

\* No answer in time, or the connection breaks: the channel is closed.
TimeOut ==
    /\ pc = "wait"
    /\ open' = FALSE
    /\ reply' = None /\ UNCHANGED request
    /\ Settle(FALSE)

\* Mutant of CounterRead: the counter is returned and not incremented.
CounterReadOnly == counter

\* Mutant of CounterRead: it does not wrap.
CounterReadWide == counter + 1

\* readDiagnosticCounter counts itself.
CounterRead == (counter + 1) % WordModulus

\* The value a read callback gives; the process image is modelled elsewhere.
ValueOf(tag) == CASE tag = 0 -> CounterRead [] tag = 1 -> loopIn
                  [] tag = 2 -> loopOut [] OTHER -> 0

\* The server executes a request and answers.
Execute ==
    /\ request # None /\ session
    /\ LET q == request IN
         /\ reply' = IF pc = "wait"
                     THEN [op |-> "good", tag |-> q.tag,
                           word |-> IF q.op = "read" THEN ValueOf(q.tag) ELSE 0]
                     ELSE None
         /\ counter' = IF q.op = "read" /\ q.tag = 0
                       THEN CounterRead ELSE counter
         /\ outputs' = IF q.op = "write" /\ q.tag = 4 THEN q.word ELSE outputs
         /\ loopIn' = IF q.op = "write" /\ q.tag = 1 THEN q.word ELSE loopIn
         /\ loopOut' = IF q.op = "write" /\ q.tag = 1 THEN q.word ELSE loopOut
         /\ written' = IF q.op = "write" THEN written + 1 ELSE written
    /\ request' = None
    /\ UNCHANGED <<client, key, session, resets>>

\* A request (also one of a forgotten session) or an answer gets lost.
Lose ==
    /\ \/ request # None /\ request' = None /\ UNCHANGED reply
       \/ reply # None /\ reply' = None /\ UNCHANGED request
    /\ UNCHANGED <<client, key, board, resets>>

\* The board is reset; its relays are switched off.  It knows neither connection
\* nor channel afterwards, so that it cannot tell the client that the session is
\* gone: TCP refuses the next request, and the call ends as in TimeOut.
Reset ==
    /\ resets < MaxResets /\ resets' = resets + 1
    /\ session' = FALSE /\ request' = None /\ reply' = None
    /\ counter' = 0 /\ loopIn' = 0 /\ loopOut' = 0 /\ outputs' = 0
    /\ UNCHANGED <<client, key, written>>

Calling == Turn \/ Send \/ Refuse \/ Receive \/ TimeOut
Next == PressKey \/ Calling \/ Execute \/ Lose \/ Reset

\* The client runs and its waits end; nothing is asked of server or network.
Spec == Init /\ [][Next]_vars /\ WF_vars(Calling)

-----------------------------------------------------------------------------
\* The statistics add up: every read a cycle has made is counted once, good or
\* failed, and the ADC totals are those of the four ADC tags.
TallyAddsUp ==
    /\ \A i \in Tags : reads[i] + errors[i] =
          IF pc # "loop" /\ step \in (i + 3)..10 THEN cycles + 1 ELSE cycles
    /\ adcReads = reads[5] + reads[6] + reads[7] + reads[8]
    /\ adcErrors = errors[5] + errors[6] + errors[7] + errors[8]

\* What a good read returns is up to date, whatever was lost before: the counter
\* has counted the client's reads, the loopback tags carry this cycle's word.
GoodReadsAreCurrent ==
    [][\A i \in 0..2 : reads'[i] # reads[i] =>
          reply.word = IF i = 0 THEN reads'[0] % WordModulus ELSE word]_vars

\* "100% reliable (0 errors)" is about the writes too, although their results are
\* ignored: none is lost without failing the reads that follow it.
ReliableMeansWritten ==
    /\ pc = "loop" \/ (pc = "send" /\ step = 11)
    /\ \A i \in Tags : errors[i] = 0
    => written = 2 * cycles

\* "All outputs reset to 0" is true if no call has timed out.
OutputsReset == pc = "done" /\ open => outputs = 0

\* "Press any key to stop": it does, whatever network and board do.
KeyStops == key ~> pc = "done"
=============================================================================
