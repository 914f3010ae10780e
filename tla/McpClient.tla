----------------------------- MODULE McpClient -----------------------------
(* The MCP client of the browser agent on one stdio server: the registry that connects and
   retries (grok-build-mcp.ts), the protocol client that numbers the requests
   (grok-build-mcp-protocol.ts) and the adapter that finds whose answer a line of the
   server's is (grok-build-mcp-stdio.ts).  Over HTTP each answer comes on its own request's
   stream.  The server (external) answers in any order, with a result or an error, and a
   process that was not initialized answers with errors.  A line that the adapter cannot
   read is dropped, and the request it answered goes on being waited for: the client's
   timer ends once the adapter has taken the request.

   A call at "join" awaits a connection, at "rejoin" one it had made anew; an agent at
   "init", "list" or "call" awaits the answer to its request of that kind.  The adapter's
   spawn, which can also throw, is taken to succeed. *)
EXTENDS Naturals, FiniteSets

CONSTANTS
  McpCalls,      \* tool calls of the agents that share the server
  NoAttempt,
  MaxMcpFaults   \* bound on the exits of the server's process and the calls that are aborted

\* The connections a call may begin: finding none, its tool missing, or its call failing.
Attempts == McpCalls \X {"first", "refresh", "reconnect"}

ASSUME McpAssumption == NoAttempt \notin Attempts /\ MaxMcpFaults \in Nat

VARIABLES
  mcpStatus,     \* the server's state in the registry
  mcpPending,    \* its connection in progress
  mcpTools,      \* whether the tool that is called is listed
  initialized,   \* the client's flag
  nextRequestId, \* the client's counter
  at,            \* where each call and each connection is
  joined,        \* per call: the connection it awaits
  mcpAborted,    \* calls that were aborted
  result,        \* per call: whose answer it returned
  waitingFor,    \* the adapter's table of requests
  owedAnswers,   \* what the process has to answer
  serving,       \* whether the process was initialized
  cutLine,       \* whether the adapter's buffer holds a line a process left unfinished
  unread,        \* history: requests waited for whose answer was on a dropped line
  exits

registry == <<mcpStatus, mcpPending, mcpTools>>
client == <<initialized, nextRequestId>>
wire == <<waitingFor, owedAnswers, serving, cutLine>>
mcpVars == <<registry, client, at, joined, mcpAborted, result, wire, unread, exits>>

Agents == McpCalls \cup Attempts
Request == [id: Nat, by: Agents, kind: {"init", "list", "call"}]
Ended == {"done", "failed"}

McpTypeOK ==
  /\ mcpStatus \in {"idle", "connecting", "ready", "failed"}
  /\ mcpPending \in Attempts \cup {NoAttempt}
  /\ mcpTools \in BOOLEAN /\ initialized \in BOOLEAN /\ serving \in BOOLEAN
  /\ nextRequestId \in Nat /\ exits \in 0 .. MaxMcpFaults
  /\ at \in [Agents -> {"off", "join", "rejoin", "init", "list", "call"} \cup Ended]
  /\ joined \in [McpCalls -> Attempts \cup {NoAttempt}]
  /\ mcpAborted \subseteq McpCalls
  /\ result \in [McpCalls -> SUBSET Agents]
  /\ waitingFor \subseteq Request /\ owedAnswers \subseteq Request
  /\ cutLine \in BOOLEAN /\ unread \subseteq waitingFor

McpInit ==
  /\ mcpStatus = "idle" /\ mcpPending = NoAttempt /\ mcpTools = FALSE
  /\ initialized = FALSE /\ nextRequestId = 0
  /\ at = [a \in Agents |-> "off"]
  /\ joined = [c \in McpCalls |-> NoAttempt]
  /\ mcpAborted = {}
  /\ result = [c \in McpCalls |-> {}]
  /\ waitingFor = {} /\ owedAnswers = {} /\ serving = FALSE
  /\ cutLine = FALSE /\ unread = {}
  /\ exits = 0

-----------------------------------------------------------------------------
\* What is no longer waited for is no longer missed.
StillMissed == unread' = unread \cap waitingFor'

\* A request with this id is written, unless the adapter already waits for that id: then
\* it throws.  What else is waited for and owedAnswers is waiting and left.
Posted(a, kind, id, waiting, left) ==
  LET r == IF \E w \in waiting : w.id = id THEN {} ELSE {[id |-> id, by |-> a, kind |-> kind]} IN
  /\ nextRequestId' = id + 1
  /\ waitingFor' = waiting \cup r
  /\ owedAnswers' = left \cup r

\* connect begins: an initialize is posted, and c awaits it.
Connect(c, why, id, waiting, left) ==
  LET k == <<c, why>> IN
  /\ mcpStatus' = "connecting"
  /\ mcpPending' = k
  /\ joined' = [joined EXCEPT ![c] = k]
  /\ at' = [at EXCEPT ![k] = "init", ![c] = IF why = "first" THEN "join" ELSE "rejoin"]
  /\ Posted(k, "init", id, waiting, left)

\* refresh: the client forgets its session and numbers from 0, and a connection is begun
\* whatever is in progress.
Refresh(c, why, waiting, left) ==
  /\ initialized' = FALSE
  /\ Connect(c, why, 0, waiting, left)

\* callTool: a client that is not initialized (any more) initializes first.
CallTool(c) ==
  LET kind == IF initialized THEN "call" ELSE "init" IN
  /\ at' = [at EXCEPT ![c] = kind]
  /\ Posted(c, kind, nextRequestId, waitingFor, owedAnswers)
  /\ UNCHANGED <<registry, initialized, joined>>

Fails(a) ==
  /\ at' = [at EXCEPT ![a] = "failed"]
  /\ UNCHANGED <<registry, client, joined, waitingFor, owedAnswers>>

\* useTool, once there is a connection to go by: the tool is called if it is listed.
FindTool(c) ==
  \/ mcpTools /\ CallTool(c)
  \/ /\ ~mcpTools
     /\ at[c] # "rejoin"
     /\ Refresh(c, "refresh", waitingFor, owedAnswers)
     /\ UNCHANGED mcpTools

UseTool(c) ==
  /\ at[c] = "off"
  /\ \/ mcpStatus \in {"ready", "failed"} /\ FindTool(c)
     \/ /\ mcpStatus \notin {"ready", "failed"}
        /\ mcpPending # NoAttempt
        /\ joined' = [joined EXCEPT ![c] = mcpPending]
        /\ at' = [at EXCEPT ![c] = "join"]
        /\ UNCHANGED <<registry, client, waitingFor, owedAnswers>>
     \/ /\ mcpStatus \notin {"ready", "failed"}
        /\ mcpPending = NoAttempt
        /\ Connect(c, "first", nextRequestId, waitingFor, owedAnswers)
        /\ UNCHANGED <<mcpTools, initialized>>
  /\ StillMissed
  /\ UNCHANGED <<mcpAborted, result, serving, cutLine, exits>>

\* The connection c awaits is made, or failed.
Joined(c) ==
  /\ at[c] \in {"join", "rejoin"}
  /\ \/ at[joined[c]] = "done" /\ FindTool(c)
     \/ at[joined[c]] = "done" /\ at[c] = "rejoin" /\ ~mcpTools /\ Fails(c)
     \/ at[joined[c]] = "failed" /\ Fails(c)
  /\ StillMissed
  /\ UNCHANGED <<mcpAborted, result, serving, cutLine, exits>>

-----------------------------------------------------------------------------
\* A connection settles, whichever connection is the registry's by then.
Settles(k, ok) ==
  /\ mcpStatus' = IF ok THEN "ready" ELSE "failed"
  /\ mcpTools' \in {FALSE, ok}
  /\ mcpPending' = NoAttempt
  /\ at' = [at EXCEPT ![k] = IF ok THEN "done" ELSE "failed"]

\* A request of a's was refused with an error: a connection fails, a call is made once
\* more on a new connection unless it was aborted or the error says not to.
Rejected(a, again, waiting, left) ==
  \/ /\ a \in Attempts
     /\ Settles(a, FALSE)
     /\ waitingFor' = waiting /\ owedAnswers' = left
     /\ UNCHANGED <<client, joined>>
  \/ /\ a \in McpCalls
     /\ again /\ a \notin mcpAborted /\ at[<<a, "reconnect">>] = "off"
     /\ Refresh(a, "reconnect", waiting, left)
     /\ UNCHANGED mcpTools
  \/ /\ a \in McpCalls
     /\ ~again \/ a \in mcpAborted \/ at[<<a, "reconnect">>] # "off"
     /\ at' = [at EXCEPT ![a] = "failed"]
     /\ waitingFor' = waiting /\ owedAnswers' = left
     /\ UNCHANGED <<registry, client, joined>>

\* A request that was aborted, lost with the process, or refused for its id.
Throws(a) ==
  /\ at[a] \in {"init", "list", "call"}
  /\ \A w \in waitingFor : w.by # a
  /\ Rejected(a, TRUE, waitingFor, owedAnswers)
  /\ StillMissed
  /\ UNCHANGED <<mcpAborted, result, serving, cutLine, exits>>

\* The result of r, given to the agent a that waits for its id.
Resolved(a, r, waiting, left) ==
  \/ /\ at[a] = "init"
     /\ initialized' = TRUE
     /\ LET next == IF a \in Attempts THEN "list" ELSE "call" IN
          /\ at' = [at EXCEPT ![a] = next]
          /\ Posted(a, next, nextRequestId, waiting, left)
     /\ UNCHANGED <<registry, joined, result>>
  \/ /\ at[a] = "list"
     /\ Settles(a, r.kind = "list")
     /\ waitingFor' = waiting /\ owedAnswers' = left
     /\ UNCHANGED <<client, joined, result>>
  \/ /\ at[a] = "call"
     /\ at' = [at EXCEPT ![a] = "done"]
     /\ result' = [result EXCEPT ![a] = {r.by}]
     /\ waitingFor' = waiting /\ owedAnswers' = left
     /\ UNCHANGED <<registry, client, joined>>

\* r's line could be read: whoever waits for that id has the answer.
Delivered(r, left) ==
  \/ /\ \A w \in waitingFor : w.id # r.id
     /\ owedAnswers' = left
     /\ UNCHANGED <<registry, client, at, joined, result, waitingFor>>
  \/ \E w \in {v \in waitingFor : v.id = r.id} :
       \/ /\ serving \/ r.kind = "init"
          /\ Resolved(w.by, r, waitingFor \ {w}, left)
       \/ \E again \in BOOLEAN :
            /\ Rejected(w.by, again, waitingFor \ {w}, left)
            /\ UNCHANGED result

\* The server answers r.  A line that does not parse, its own or one glued to what a
\* process left unfinished, or that is too long, is recorded and dropped.
Answers(r) ==
  /\ serving' = (serving \/ r.kind = "init")
  /\ \/ /\ ~cutLine
        /\ Delivered(r, owedAnswers \ {r})
        /\ StillMissed
     \/ /\ owedAnswers' = owedAnswers \ {r}
        /\ unread' = unread \cup ({r} \cap waitingFor)
        /\ UNCHANGED <<registry, client, at, joined, result, waitingFor>>
  /\ cutLine' = FALSE
  /\ UNCHANGED <<mcpAborted, exits>>

\* The process exits, perhaps in the middle of a line, which the buffer keeps: whatever is
\* waited for is rejected.  A next write spawns another process.
ExitsQuietly == UNCHANGED waitingFor
ForgetsWaiting == waitingFor' = {}

ProcessExits ==
  /\ exits + Cardinality(mcpAborted) < MaxMcpFaults
  /\ waitingFor # {} \/ serving
  /\ exits' = exits + 1
  /\ serving' = FALSE
  /\ owedAnswers' = {}
  /\ ForgetsWaiting
  /\ StillMissed
  /\ cutLine' \in {cutLine, TRUE}
  /\ UNCHANGED <<registry, client, at, joined, mcpAborted, result>>

\* An agent aborts its call, which may be in the middle of a connection for everyone.
Abort(c) ==
  /\ c \notin mcpAborted /\ exits + Cardinality(mcpAborted) < MaxMcpFaults
  /\ \E w \in waitingFor : w.by = c \/ w.by \in {c} \X {"first", "refresh", "reconnect"}
  /\ mcpAborted' = mcpAborted \cup {c}
  /\ waitingFor' = {w \in waitingFor :
                      w.by # c /\ w.by \notin {c} \X {"first", "refresh", "reconnect"}}
  /\ StillMissed
  /\ UNCHANGED <<registry, client, at, joined, result, owedAnswers, serving, cutLine, exits>>

McpNext ==
  \/ \E c \in McpCalls : UseTool(c) \/ Joined(c) \/ Abort(c)
  \/ \E a \in Agents : Throws(a)
  \/ \E r \in owedAnswers : Answers(r)
  \/ ProcessExits

\* Promises settle, and a server that runs answers what it read.
McpFairness ==
  /\ \A c \in McpCalls : WF_mcpVars(Joined(c))
  /\ \A a \in Agents : WF_mcpVars(Throws(a))
  /\ WF_mcpVars(\E r \in owedAnswers : Answers(r))

McpSpec == McpInit /\ [][McpNext]_mcpVars /\ McpFairness

-----------------------------------------------------------------------------
\* The answer that call c, or the connection it awaits, goes on waiting for was dropped.
AnswerDropped(c) ==
  \E w \in unread : w.by = c \/ (at[c] \in {"join", "rejoin"} /\ w.by = joined[c])

\* A call that was made settles, whatever happens to the process, to the connection it
\* shares and to the other calls (useTool, connect, processExited), unless the answer it
\* waits for was dropped: such a call goes on waiting until it is aborted or the process
\* exits.  A process that exits in the middle of a line causes this (receiveStdout).
EveryCallSettles ==
  \A c \in McpCalls : at[c] # "off" ~> at[c] \in Ended \/ AnswerDropped(c)

\* "POST streams own correlated responses" (grok-build-mcp-stdio.ts:34): what a call
\* returns is what the server answered to it.
\* It does not hold: a process that is started anew is asked under numbers used before.
AnswerIsTheCalls == \A c \in McpCalls : result[c] \subseteq {c}
=============================================================================
