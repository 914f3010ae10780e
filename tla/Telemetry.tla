------------------------------ MODULE Telemetry ------------------------------
(***************************************************************************)
(* What the agent reports of itself: counters of the session, the delta of *)
(* each turn, and the spans of its prompts, samples and calls              *)
(* (grok-build-telemetry.ts, grok-build-otlp-trace.ts, and main.ts, which  *)
(* starts it, ends turns and shuts it down).                               *)
(*                                                                         *)
(* Runs come one at a time, a person's or one that a background completion *)
(* wakes.  A report that goes out is not tried again and nobody looks at   *)
(* what became of it: that it takes time is only seen where it is waited   *)
(* for.  Latencies, tokens and the text of spans are left out, and so is   *)
(* the replay of recorded sessions.                                        *)
(***************************************************************************)
EXTENDS Naturals, Sequences, FiniteSets

CONSTANTS TracedCalls,    \* the calls of a batch
          MaxTraced,      \* bound: runs of the session
          MaxSamples,     \* bound: samples of a run, after which it hits its limit
          MaxMishaps,     \* bound: what went wrong before a prompt that cannot be prepared
          RestoredCount,  \* the compactions a restored session brings
          MaxCompacted    \* bound: compactions of the session

ASSUME TelemetryAssumption ==
  /\ MaxTraced \in Nat /\ MaxSamples \in Nat \ {0}
  /\ MaxMishaps \in Nat /\ RestoredCount \in Nat /\ MaxCompacted \in Nat

Counters == {"calls", "failures", "errors", "cancels", "messages", "compactions", "pauses"}

VARIABLES boot,      \* start: "config", "signals", "done"
          ticking,   \* the interval is set
          closing,   \* "no", "boot", "sync", "flush", "done"
          resetting, \* "no"; a reset "waits" for the shutdown; the telemetry is "gone"
          turns,     \* totalTurns
          counted,   \* the tracker's counters
          baseline,  \* turnBaseline
          deltas,    \* what the deltas sent so far say, summed up
          spans,     \* what is open, and whether ended spans wait to be exported
          traced,    \* the run: who for, where it is, its calls and samples, and whether
                     \* a reset stopped it
          compacted, \* the session's own count of compactions
          summary    \* the summary of the last turn is being streamed

telemetryVars == <<boot, ticking, closing, resetting, turns, counted, baseline, deltas,
                   spans, traced, compacted, summary>>

NoCounts == [k \in Counters |-> 0]
NoTrace  == [for |-> "none", at |-> "idle", calls |-> {}, samples |-> 0,
             stopped |-> FALSE]

TelemetryTypeOK ==
  /\ boot \in {"config", "signals", "done"} /\ ticking \in BOOLEAN
  /\ closing \in {"no", "boot", "sync", "flush", "done"} /\ resetting \in {"no", "waits", "gone"}
  /\ turns \in Nat
  /\ counted \in [Counters -> Nat] /\ baseline \in [Counters -> Nat]
  /\ deltas \in [Counters -> Nat]
  /\ spans \in [session : BOOLEAN, prompt : BOOLEAN, response : BOOLEAN,
                tools : SUBSET TracedCalls, ended : BOOLEAN]
  /\ traced \in [for : {"none", "person", "wake"}, calls : SUBSET TracedCalls,
                 at : {"idle", "turn", "calling", "told"}, samples : 0 .. MaxSamples,
                 stopped : BOOLEAN]
  /\ compacted \in Nat /\ summary \in BOOLEAN

\* createInitialGrokBuildSignals, and the producer's constructor, whose spawn is exported
\* with the first turn.
TelemetryInit ==
  /\ boot = "config" /\ ticking = FALSE /\ closing = "no" /\ resetting = "no"
  /\ turns = 0 /\ counted = NoCounts /\ baseline = NoCounts /\ deltas = NoCounts
  /\ spans = [session |-> TRUE, prompt |-> FALSE, response |-> FALSE, tools |-> {},
              ended |-> TRUE]
  /\ traced = NoTrace
  /\ compacted = RestoredCount
  /\ summary = FALSE

-----------------------------------------------------------------------------
\* loadFeedbackConfig, whatever comes of it
ConfigSettles ==
  /\ boot = "config" /\ boot' = "signals"
  /\ UNCHANGED <<ticking, closing, resetting, turns, counted, baseline, deltas, spans,
                 traced, compacted, summary>>

\* The first updateSignals settles: the interval is set, unless it is being shut down.
SignalsSettle ==
  /\ boot = "signals" /\ boot' = "done"
  /\ ticking' = (closing = "no")
  /\ UNCHANGED <<closing, resetting, turns, counted, baseline, deltas, spans, traced,
                 compacted, summary>>

-----------------------------------------------------------------------------
(***************************************************************************)
(* Spans                                                                   *)
(***************************************************************************)

CloseResponse(s) == [s EXCEPT !.response = FALSE, !.ended = @ \/ s.response]

\* closePrompt
ClosePrompt(s) ==
  [CloseResponse(s) EXCEPT !.tools = {}, !.prompt = FALSE,
                           !.ended = @ \/ s.tools # {} \/ s.prompt]

\* response_end: a sample that no turn_start announced gets a span of its own.
ResponseEnds(s) == [s EXCEPT !.response = FALSE, !.ended = TRUE]

\* turn_start
ResponseStarts(s) == [CloseResponse(s) EXCEPT !.response = TRUE]

\* tool_start, with the instant spans around it
OpenTools(s, calls) == [s EXCEPT !.tools = @ \cup calls, !.ended = TRUE]

\* Mutant: the span of a call that failed is left open.
ToolEnds_IfGood(s, c, good) ==
  IF c \in s.tools /\ good THEN [s EXCEPT !.tools = @ \ {c}, !.ended = TRUE] ELSE s

\* tool_end
ToolEnds(s, c, good) ==
  IF c \in s.tools THEN [s EXCEPT !.tools = @ \ {c}, !.ended = TRUE] ELSE s

\* exportTraceSpans of what the producer drained
Exported(s) == [s EXCEPT !.ended = FALSE]

-----------------------------------------------------------------------------
(***************************************************************************)
(* Counters                                                                *)
(***************************************************************************)

Plus(f, ks) == [k \in Counters |-> IF k \in ks THEN f[k] + 1 ELSE f[k]]

\* run_start: a pause of a minute since the last one also raises the baseline, which for
\* pauses holds what the next delta will say.
StartCounts(paused) ==
  /\ turns' = turns + 1
  /\ counted' = IF paused THEN Plus(counted, {"pauses"}) ELSE counted
  /\ baseline' = IF paused THEN Plus(baseline, {"pauses"}) ELSE baseline

\* What a delta says of a counter
Delta(now, k) == IF k = "pauses" THEN baseline[k] ELSE now[k] - baseline[k]

\* Mutant: the errors of the calls are told by a turn and again by the next.
TakeTurnDelta_KeepsErrors(counts, outcome) ==
  LET now == Plus(counts, CASE outcome = "cancelled" -> {"cancels"}
                            [] outcome = "error" -> {"errors"}
                            [] OTHER -> {})
  IN /\ counted' = now
     /\ deltas' = [k \in Counters |-> deltas[k] + Delta(now, k)]
     /\ baseline' = [now EXCEPT !["pauses"] = 0, !["errors"] = baseline["errors"]]

\* takeTurnDelta
TakeTurnDelta(counts, outcome) ==
  LET now == Plus(counts, CASE outcome = "cancelled" -> {"cancels"}
                            [] outcome = "error" -> {"errors"}
                            [] OTHER -> {})
  IN /\ counted' = now
     /\ deltas' = [k \in Counters |-> deltas[k] + Delta(now, k)]
     /\ baseline' = [now EXCEPT !["pauses"] = 0]

\* The report of a turn goes out with the spans that ended.
ReportTurn(s) == spans' = Exported(s)

-----------------------------------------------------------------------------
(***************************************************************************)
(* A run, as record and end see it.  Nothing is recorded once a reset has  *)
(* forgotten the telemetry; after a page was hidden, it still is.  A reset *)
(* stops the run, does not wait for it to end, and meanwhile another may   *)
(* begin.                                                                  *)
(***************************************************************************)

Recorded(s) == spans' = IF resetting = "gone" THEN spans ELSE s
Counts(ks)  == counted' = IF resetting = "gone" THEN counted ELSE Plus(counted, ks)

\* runAgent or runLiveAutoWake, which wait for the boot; run_start and the first
\* turn_start
RunIsTraced(for, paused) ==
  /\ traced.at = "idle" /\ turns < MaxTraced /\ boot = "done" /\ resetting # "gone"
  /\ (paused => turns > 0)
  /\ StartCounts(paused)
  /\ spans' = ResponseStarts([ClosePrompt(spans) EXCEPT !.prompt = TRUE])
  /\ traced' = [NoTrace EXCEPT !.for = for, !.at = "turn"]
  /\ UNCHANGED <<boot, ticking, closing, resetting, deltas, compacted, summary>>

\* The sample's response_end and the assistant's event; the calls' tool_start
Sampled(calls) ==
  /\ traced.at = "turn" /\ ~traced.stopped /\ traced.samples < MaxSamples /\ calls # {}
  /\ Counts({"messages"})
  /\ Recorded(OpenTools(ResponseEnds(spans), calls))
  /\ traced' = [traced EXCEPT !.at = "calling", !.calls = calls, !.samples = @ + 1]
  /\ UNCHANGED <<boot, ticking, closing, resetting, turns, baseline, deltas, compacted,
                 summary>>

\* A compaction between turn_start and the sample: the agent counts one, the tracker two,
\* from the session's own count.
RunCompacts ==
  /\ traced.at = "turn" /\ ~traced.stopped /\ compacted < MaxCompacted
  /\ compacted' = compacted + 1
  /\ counted' = IF resetting = "gone" THEN counted
                ELSE [counted EXCEPT !["compactions"] = 2 * (compacted + 1)]
  /\ Recorded(ResponseEnds(spans))
  /\ UNCHANGED <<boot, ticking, closing, resetting, turns, baseline, deltas, traced,
                 summary>>

\* tool_end; the batch is over with its last call, and at the limit so is the run, which
\* tells no delta (the "limit" event).
ToolIsTraced(c, good) ==
  /\ traced.at = "calling" /\ c \in traced.calls
  /\ Counts(IF good THEN {"calls"} ELSE {"calls", "failures", "errors"})
  /\ LET left    == traced.calls \ {c}
         limited == left = {} /\ traced.samples = MaxSamples
         s       == ToolEnds(spans, c, good)
     IN /\ Recorded(IF limited THEN ClosePrompt(s)
                     ELSE IF left = {} /\ ~traced.stopped THEN ResponseStarts(s) ELSE s)
        /\ traced' = IF limited THEN NoTrace
                     ELSE [traced EXCEPT !.calls = left,
                                         !.at = IF left = {} THEN "turn" ELSE "calling"]
  /\ UNCHANGED <<boot, ticking, closing, resetting, turns, baseline, deltas, compacted,
                 summary>>

\* A sample without calls: "complete" is recorded, and the run waits for the reports on
\* their way before it has the turn summarised (beforeTurnSummary).
RunCompletes ==
  /\ traced.at = "turn" /\ ~traced.stopped /\ resetting # "gone"
  /\ TakeTurnDelta(Plus(counted, {"messages"}), "completed")
  /\ ReportTurn(ClosePrompt(ResponseEnds(spans)))
  /\ traced' = [traced EXCEPT !.at = "told"]
  /\ UNCHANGED <<boot, ticking, closing, resetting, turns, compacted, summary>>

\* As RunCompletes, with nobody to tell
CompletesUntold ==
  /\ traced.at = "turn" /\ ~traced.stopped /\ resetting = "gone"
  /\ traced' = [traced EXCEPT !.at = "told"]
  /\ UNCHANGED <<boot, ticking, closing, resetting, turns, counted, baseline, deltas, spans,
                 compacted, summary>>

\* startTurnSummary returns with the first of its stream, or fails, or the run was stopped.
RunReturns(summarises) ==
  /\ traced.at = "told"
  /\ traced' = NoTrace /\ summary' = (summary \/ summarises)
  /\ UNCHANGED <<boot, ticking, closing, resetting, turns, counted, baseline, deltas, spans,
                 compacted>>

\* response_end of a summary, in a later run or in none
SummaryEnds ==
  /\ summary /\ summary' = FALSE
  /\ Recorded(ResponseEnds(spans))
  /\ UNCHANGED <<boot, ticking, closing, resetting, turns, counted, baseline, deltas, traced,
                 compacted>>

\* A run fails or is stopped, between samples or calls: runAgent ends the turn, unless
\* nothing is left to end it with, and runLiveAutoWake does not.
RunFails(outcome) ==
  /\ traced.at = "turn" /\ (traced.stopped => outcome = "cancelled")
  /\ traced' = NoTrace
  /\ IF traced.for = "person" /\ resetting # "gone"
       THEN TakeTurnDelta(counted, outcome) /\ ReportTurn(ClosePrompt(spans))
       ELSE UNCHANGED <<counted, deltas, baseline, spans>>
  /\ UNCHANGED <<boot, ticking, closing, resetting, turns, compacted, summary>>

\* The prompt cannot be prepared (prepareBrowserPrompt): a turn ends that never started.
PrepareFails(outcome) ==
  /\ traced.at = "idle" /\ boot = "done" /\ resetting # "gone"
  /\ counted["cancels"] + counted["errors"] < MaxMishaps
  /\ TakeTurnDelta(counted, outcome) /\ ReportTurn(ClosePrompt(spans))
  /\ UNCHANGED <<boot, ticking, closing, resetting, turns, traced, compacted, summary>>

-----------------------------------------------------------------------------
(***************************************************************************)
(* shutdown, of a reset or of a page that is hidden and may come back      *)
(***************************************************************************)

Stops(reset) == traced' = [traced EXCEPT !.stopped = @ \/ (reset /\ traced.at # "idle")]

ShutdownBegins(reset) ==
  /\ closing = "no"
  /\ closing' = "boot" /\ Stops(reset)
  /\ resetting' = IF reset THEN "waits" ELSE "no"
  /\ UNCHANGED <<boot, ticking, turns, counted, baseline, deltas, spans, compacted, summary>>

\* A page hidden before may be reset once it is back: what is shut down is not awaited.
ResetsLater ==
  /\ closing # "no" /\ resetting = "no"
  /\ resetting' = "gone" /\ Stops(TRUE)
  /\ UNCHANGED <<boot, ticking, closing, turns, counted, baseline, deltas, spans, compacted,
                 summary>>

\* Mutant: the interval goes on.
BootIsAwaited_Ticking ==
  /\ closing = "boot" /\ boot = "done"
  /\ closing' = "sync"
  /\ UNCHANGED <<boot, ticking, resetting, turns, counted, baseline, deltas, spans, traced,
                 compacted, summary>>

\* The boot is awaited, the interval cleared, and the last sync begins.
BootIsAwaited ==
  /\ closing = "boot" /\ boot = "done"
  /\ closing' = "sync" /\ ticking' = FALSE
  /\ UNCHANGED <<boot, resetting, turns, counted, baseline, deltas, spans, traced, compacted,
                 summary>>

\* The last sync is answered, fails, takes 2 s, or has nothing to say; finish.
SyncSettles ==
  /\ closing = "sync"
  /\ closing' = "flush"
  /\ spans' = [Exported(ClosePrompt(spans)) EXCEPT !.session = FALSE]
  /\ UNCHANGED <<boot, ticking, resetting, turns, counted, baseline, deltas, traced,
                 compacted, summary>>

\* flush: what was on its way has settled.
ShutdownEnds ==
  /\ closing = "flush"
  /\ closing' = "done"
  /\ resetting' = IF resetting = "waits" THEN "gone" ELSE resetting
  /\ UNCHANGED <<boot, ticking, turns, counted, baseline, deltas, spans, traced, compacted,
                 summary>>

-----------------------------------------------------------------------------
TelemetryNext ==
  \/ ConfigSettles \/ SignalsSettle
  \/ \E for \in {"person", "wake"}, paused \in BOOLEAN : RunIsTraced(for, paused)
  \/ \E calls \in SUBSET TracedCalls : Sampled(calls)
  \/ \E c \in TracedCalls, good \in BOOLEAN : ToolIsTraced(c, good)
  \/ RunCompacts \/ RunCompletes \/ CompletesUntold \/ SummaryEnds
  \/ \E summarises \in BOOLEAN : RunReturns(summarises)
  \/ \E outcome \in {"cancelled", "error"} : RunFails(outcome) \/ PrepareFails(outcome)
  \/ \E reset \in BOOLEAN : ShutdownBegins(reset)
  \/ ResetsLater \/ BootIsAwaited \/ SyncSettles \/ ShutdownEnds

TelemetrySpec == TelemetryInit /\ [][TelemetryNext]_telemetryVars

-----------------------------------------------------------------------------
(***************************************************************************)
(* The deltas told so far and the counts not told yet make up the totals:  *)
(* whatever ends a turn or leaves it unended, nothing is told twice or     *)
(* lost, only late (takeTurnDelta).  While the session's span is open the  *)
(* spans of calls are those of the calls that run, inside their prompt's.  *)
(* And a telemetry that is shut down ticks no more.                        *)
(***************************************************************************)
DeltasAddUp ==
  \A k \in Counters : IF k = "pauses" THEN deltas[k] + baseline[k] = counted[k]
                                      ELSE deltas[k] = baseline[k]
SpansAreTheRuns ==
  spans.session /\ resetting # "gone" =>
    spans.tools = traced.calls /\ (traced.at \in {"turn", "calling"} => spans.prompt)
ShutIsQuiet == closing \in {"sync", "flush", "done"} => ~ticking

TelemetryIsTrue == DeltasAddUp /\ SpansAreTheRuns /\ ShutIsQuiet

\* While a sample is asked for its span is open.  It does not hold: the end of a summary of
\* the turn before, or of a compaction, closes it, as if it were that sample's own.
SampleHasItsSpan ==
  traced.at = "turn" /\ spans.session /\ resetting # "gone" => spans.response

\* Every turn that ended is told.  It does not hold: not of a background completion's turn
\* that failed, nor of one stopped by a reset that did not wait for it.
TurnsAreTold == traced.at = "idle" => baseline["messages"] = counted["messages"]
=============================================================================
