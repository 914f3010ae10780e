------------------------------ MODULE AgentLoop ------------------------------
(***************************************************************************)
(* One agent session's loop (grok-build-agent.ts): runInternal, its batch  *)
(* of tool calls, requestGrokStream's retries, and the compaction of the   *)
(* conversation (grok-build-compaction.ts).                                *)
(*                                                                         *)
(* The conversation is a sequence of items: a query, a note (any other     *)
(* text sent as the user: a reminder, an interjection), a call, its output,*)
(* a reply and a summary.  The system prompt and the user-info message,    *)
(* which compaction keeps first, are left out; so are side calls that      *)
(* change nothing, and the token count: compaction may come due or not.    *)
(***************************************************************************)
EXTENDS Naturals, Sequences, SequencesExt

CONSTANTS
  ToolPaths,       \* the files a call may name
  NoPath,          \* a call that names none
  MaxTurns,        \* options.maxTurns
  RetryLimit,      \* DEFAULT_MAX_RETRIES, 15
  RateRetryLimit,  \* RATE_LIMIT_RETRY_THRESHOLD, 2
  SummaryTries,    \* attempts at a summary, 3
  BatchLimit,      \* bound on the calls of a reply
  MaxCalls, MaxRuns, MaxNotes, MaxCompactions, MaxRestores \* bounds on what happens to the session

ASSUME AgentLoopAssumption ==
  /\ NoPath \notin ToolPaths
  /\ {MaxTurns, RetryLimit, RateRetryLimit, SummaryTries} \subseteq Nat \ {0}
  /\ {BatchLimit, MaxCalls, MaxRuns, MaxNotes, MaxCompactions, MaxRestores} \subseteq Nat

VARIABLES
  phase,        \* idle | titling | turn | compacting | sampling | tools
  task,         \* the last query asked
  runs,         \* runs so far
  turnNumber,
  conversation, \* this.input
  saved,        \* the last checkpoint
  titled,       \* titleCreated
  retries,      \* of the request under way: retryCount; of a compaction: attempts
  batch,        \* the calls of the reply being executed
  stopping,     \* the run's signal is aborted
  compactions,
  callCount, notes, restores,
  splitBatch    \* history: a note or a reload came between a call and its output

loopVars == <<phase, task, runs, turnNumber, conversation, saved, titled, retries, batch, stopping,
              compactions, callCount, notes, restores, splitBatch>>

ToolCalls == 1 .. MaxCalls
Items == {<<"query", q>> : q \in 1 .. MaxRuns} \cup ({"call", "output"} \X ToolCalls)
           \cup ({"note", "reply", "summary"} \X {0})

LoopTypeOK ==
  /\ phase \in {"idle", "titling", "turn", "compacting", "sampling", "tools"}
  /\ task \in 0 .. runs /\ runs \in 0 .. MaxRuns /\ turnNumber \in 0 .. MaxTurns
  /\ {conversation, saved} \subseteq Seq(Items)
  /\ {titled, stopping, splitBatch} \subseteq BOOLEAN
  /\ retries \in (0 .. RetryLimit) \cup (0 .. SummaryTries)
  /\ batch \in Seq([call : ToolCalls, path : ToolPaths \cup {NoPath}, writes : BOOLEAN,
                    at : {"waiting", "running", "ended"}])
  /\ compactions \in 0 .. MaxCompactions /\ callCount \in 0 .. MaxCalls
  /\ notes \in 0 .. MaxNotes /\ restores \in 0 .. MaxRestores

LoopInit ==
  /\ phase = "idle" /\ task = 0 /\ runs = 0 /\ turnNumber = 0
  /\ conversation = <<>> /\ saved = <<>>
  /\ titled = FALSE /\ stopping = FALSE /\ splitBatch = FALSE
  /\ retries = 0 /\ batch = <<>> /\ compactions = 0
  /\ callCount = 0 /\ notes = 0 /\ restores = 0

-----------------------------------------------------------------------------
Says(items)  == conversation' = conversation \o items
Checkpoint   == saved' = conversation'
Note         == <<"note", 0>>
IsText(item) == item[1] \in {"query", "note", "summary"}

\* A run ends: with its result, or with what it throws.
RunEnds ==
  /\ phase' = "idle" /\ turnNumber' = 0 /\ retries' = 0 /\ batch' = <<>>
  /\ stopping' = FALSE

\* The query is added to the conversation, and the first turn follows.
Asks ==
  /\ phase' = "turn" /\ turnNumber' = 1 /\ retries' = 0
  /\ task' = runs' /\ Says(<<<<"query", runs'>>>>) /\ Checkpoint

\* run: the session's first run makes its title before it asks.
Run ==
  /\ phase = "idle" /\ runs < MaxRuns
  /\ runs' = runs + 1
  /\ IF titled THEN Asks ELSE phase' = "titling" /\ UNCHANGED <<task, turnNumber, retries, conversation, saved>>
  /\ UNCHANGED <<titled, batch, stopping, compactions, callCount, notes, restores, splitBatch>>

Titled ==
  /\ phase = "titling"
  /\ titled' = TRUE /\ UNCHANGED runs
  /\ Asks
  /\ UNCHANGED <<batch, stopping, compactions, callCount, notes, restores, splitBatch>>

\* resume: a wake's run asks nothing.
ResumeRun ==
  /\ phase = "idle" /\ runs < MaxRuns /\ task # 0
  /\ runs' = runs + 1
  /\ phase' = "turn" /\ turnNumber' = 1
  /\ UNCHANGED conversation /\ Checkpoint
  /\ UNCHANGED <<task, retries, titled, batch, stopping, compactions, callCount, notes,
                 restores, splitBatch>>

\* enqueueSystemReminder, while no run or any step of one is under way.
Enqueue ==
  /\ notes < MaxNotes /\ conversation # <<>>
  /\ notes' = notes + 1
  /\ Says(<<Note>>) /\ Checkpoint
  /\ splitBatch' = (splitBatch \/ phase = "tools")
  /\ UNCHANGED <<phase, task, runs, turnNumber, titled, retries, batch, stopping, compactions, callCount, restores>>

\* drainSystemReminders: what was kept for the next sample is added with it.
Drained(n) == [i \in 1 .. n |-> Note]
Drains(n)  == notes + n <= MaxNotes /\ notes' = notes + n

\* A turn begins, unless the run was stopped: maybeCompact, then the sample.
TurnBegins ==
  /\ phase = "turn"
  /\ \/ stopping /\ RunEnds /\ UNCHANGED <<conversation, notes>>
     \/ /\ ~stopping /\ compactions < MaxCompactions
        /\ phase' = "compacting" /\ retries' = SummaryTries
        /\ UNCHANGED <<turnNumber, batch, stopping, conversation, notes>>
     \/ /\ ~stopping
        /\ phase' = "sampling"
        /\ \E n \in 0 .. 1 : Drains(n) /\ Says(Drained(n))
        /\ UNCHANGED <<turnNumber, retries, batch, stopping>>
  /\ UNCHANGED <<task, runs, saved, titled, compactions, callCount, restores, splitBatch>>

-----------------------------------------------------------------------------
\* A mutant of Retried: only a rate limit counts the attempts.
Retried_RateOnly(status) ==
  status = "server" \/ (status = "rate" /\ retries + 1 < RateRetryLimit)

\* classifyGrokRetry: whether a request that failed is made again.
Retried(status) ==
  LET next == retries + 1 IN
    CASE status = "rate"   -> next < RetryLimit /\ next < RateRetryLimit
      [] status = "server" -> next < RetryLimit
      [] OTHER             -> FALSE

\* requestGrokStream: the request fails, or the run is stopped in it.
RequestFails ==
  /\ phase \in {"titling", "sampling"}
  /\ \E status \in {"rate", "server", "refused"} :
       IF Retried(status)
       THEN retries' = retries + 1 /\ UNCHANGED <<phase, turnNumber, batch, stopping>>
       ELSE RunEnds
  /\ UNCHANGED <<task, runs, conversation, saved, titled, compactions, callCount, notes, restores, splitBatch>>

\* compactNow: a summary that is too short is asked for again, three times in all.
SummaryFails ==
  /\ phase = "compacting"
  /\ \E short \in BOOLEAN :
       IF short /\ retries > 1
       THEN retries' = retries - 1 /\ UNCHANGED <<phase, turnNumber, batch, stopping>>
       ELSE RunEnds
  /\ UNCHANGED <<task, runs, conversation, saved, titled, compactions, callCount, notes, restores, splitBatch>>

\* findLastRealUserIndex and buildGrokCompactedHistoryWithContext, which filters what follows it.
LastUser == SelectLastInSeq(conversation, IsText)
Kept(kinds) ==
  LET after == SubSeq(conversation, LastUser + 1, Len(conversation))
      upTo[i \in 0 .. Len(after)] ==
        IF i = 0 THEN <<>>
        ELSE IF after[i][1] \in kinds THEN Append(upTo[i - 1], after[i]) ELSE upTo[i - 1]
  IN  upTo[Len(after)]
RecentCalls == Kept({"reply", "call"})
Recent == Kept({"reply", "call", "output"})
Compacted == <<conversation[LastUser]>> \o Recent \o <<<<"summary", 0>>>>

Compact(reminded) ==
  /\ conversation' = Compacted \o reminded
  /\ compactions' = compactions + 1
  /\ Checkpoint
  /\ UNCHANGED <<titled, task, runs, turnNumber, batch, stopping, callCount, notes, restores, splitBatch>>

\* Its run goes on to the sample; without a query to keep, it throws.
Summarized ==
  /\ phase = "compacting" /\ LastUser # 0
  /\ phase' = "sampling" /\ retries' = 0
  /\ \E reminded \in {<<>>, <<Note>>} : Compact(reminded)

\* /compact, between runs.
CompactNow ==
  /\ phase = "idle" /\ compactions < MaxCompactions /\ LastUser # 0
  /\ UNCHANGED <<phase, retries>>
  /\ \E reminded \in {<<>>, <<Note>>} : Compact(reminded)

-----------------------------------------------------------------------------
\* A reply without calls completes the run, unless a note came during the sample; at the
\* last turn such a note leaves the loop, which throws.
Replies ==
  /\ phase = "sampling"
  /\ \E n \in 0 .. 1 :
       /\ Drains(n)
       /\ Says(<<<<"reply", 0>>>> \o Drained(n)) /\ Checkpoint
       /\ IF n > 0 /\ turnNumber < MaxTurns
          THEN phase' = "turn" /\ turnNumber' = turnNumber + 1 /\ retries' = 0 /\ UNCHANGED <<batch, stopping>>
          ELSE RunEnds
  /\ UNCHANGED <<task, runs, titled, compactions, callCount, restores, splitBatch>>

\* A reply with calls starts its batch.
CallsTools ==
  /\ phase = "sampling"
  /\ \E n \in 1 .. BatchLimit, paths \in [1 .. BatchLimit -> ToolPaths \cup {NoPath}],
        writing \in SUBSET (1 .. BatchLimit) :
       /\ batch' = [i \in 1 .. n |-> [call |-> callCount + i, path |-> paths[i],
                                      writes |-> i \in writing /\ paths[i] # NoPath,
                                      at |-> "waiting"]]
       /\ Says([i \in 1 .. n |-> <<"call", callCount + i>>])
       /\ callCount' = callCount + n /\ callCount' <= MaxCalls
  /\ Checkpoint
  /\ phase' = "tools" /\ retries' = 0
  /\ UNCHANGED <<task, runs, turnNumber, titled, stopping, compactions, notes, restores, splitBatch>>

\* executeGrokToolBatch: a call on a path the batch writes waits for those before it on it.
Locked(path) == \E i \in DOMAIN batch : batch[i].path = path /\ batch[i].writes
WaitsForWrites(i) ==
  \E j \in 1 .. i - 1 : batch[j].path = batch[i].path /\ batch[j].writes /\ batch[j].at # "ended"
MustWait(i) ==
  /\ Locked(batch[i].path)
  /\ \E j \in 1 .. i - 1 : batch[j].path = batch[i].path /\ batch[j].at # "ended"

CallStarts(i) ==
  /\ batch[i].at = "waiting" /\ ~MustWait(i)
  /\ batch' = [batch EXCEPT ![i].at = "running"]
  /\ UNCHANGED <<phase, task, runs, turnNumber, conversation, saved, titled, retries, stopping, compactions,
                 callCount, notes, restores, splitBatch>>

\* Its output, or its error, is appended, with the note its tool asks for.
CallEnds(i) ==
  /\ batch[i].at = "running"
  /\ batch' = [batch EXCEPT ![i].at = "ended"]
  /\ \E n \in 0 .. 1 :
       /\ Drains(n)
       /\ Says(<<<<"output", batch[i].call>>>> \o Drained(n)) /\ Checkpoint
       /\ splitBatch' = (splitBatch \/ (n > 0 /\ \E j \in DOMAIN batch \ {i} : batch[j].at # "ended"))
  /\ UNCHANGED <<phase, task, runs, turnNumber, titled, retries, stopping, compactions, callCount, restores>>

\* When every call has ended: the next turn, or the limit.
BatchEnds ==
  /\ phase = "tools" /\ \A i \in DOMAIN batch : batch[i].at = "ended"
  /\ IF turnNumber = MaxTurns
     THEN RunEnds
     ELSE phase' = "turn" /\ turnNumber' = turnNumber + 1 /\ batch' = <<>> /\ UNCHANGED <<retries, stopping>>
  /\ UNCHANGED <<task, runs, conversation, saved, titled, compactions, callCount, notes, restores, splitBatch>>

ToolStep == phase = "tools" /\ \E i \in DOMAIN batch : CallStarts(i) \/ CallEnds(i)

-----------------------------------------------------------------------------
\* The run's signal is aborted: a request under way throws; a batch's calls end first.
StopRun ==
  /\ phase # "idle" /\ ~stopping
  /\ IF phase \in {"turn", "tools"}
     THEN stopping' = TRUE /\ UNCHANGED <<phase, turnNumber, retries, batch>>
     ELSE RunEnds
  /\ UNCHANGED <<task, runs, conversation, saved, titled, compactions, callCount, notes, restores,
                 splitBatch>>

\* The page is loaded again, and the session restored from its checkpoint.
Restore ==
  /\ restores < MaxRestores
  /\ restores' = restores + 1
  /\ conversation' = saved
  /\ splitBatch' = (splitBatch \/ phase = "tools")
  /\ RunEnds
  /\ UNCHANGED <<task, runs, saved, titled, compactions, callCount, notes>>

LoopNext ==
  \/ Run \/ Titled \/ ResumeRun \/ Enqueue \/ TurnBegins
  \/ RequestFails \/ SummaryFails \/ Summarized \/ CompactNow
  \/ Replies \/ CallsTools \/ ToolStep \/ BatchEnds
  \/ StopRun \/ Restore

LoopSpec == LoopInit /\ [][LoopNext]_loopVars

-----------------------------------------------------------------------------
\* While one call of a batch writes a file, no other call of the batch reads or writes it
\* (executeGrokToolBatch: "share a FIFO file lock").
WritesAreAlone ==
  \A i, j \in DOMAIN batch :
    i # j /\ batch[i].at = "running" /\ batch[j].at = "running" /\ batch[i].writes
      => batch[i].path # batch[j].path

\* A sample is asked for with every call answered after it was made and no answer without
\* its call, across compactions, unless something came between the calls of a batch and
\* their outputs (runInternal, buildGrokCompactedHistoryWithContext).
CallsAreAnswered ==
  phase = "sampling" /\ ~splitBatch =>
    \A c \in 1 .. callCount : \A i \in DOMAIN conversation :
      /\ conversation[i] = <<"call", c>> => \E j \in i .. Len(conversation) : conversation[j] = <<"output", c>>
      /\ conversation[i] = <<"output", c>> => \E j \in 1 .. i : conversation[j] = <<"call", c>>

\* Calls of one batch run side by side where that is safe, and each is answered
\* in the transcript whatever the loop does to it.
LoopKeepsItsCalls == WritesAreAlone /\ CallsAreAnswered

\* "The successor will see the user's original query plus this summary"
\* (grok-build-compaction.ts:4).
\* It does not hold of the code.
QueryIsSeen ==
  phase = "sampling" => \E i \in DOMAIN conversation : conversation[i] = <<"query", task>>
=============================================================================
