------------------------------- MODULE Consent -------------------------------
(***************************************************************************)
(* What the browser tools promise the person, whatever messages it takes:  *)
(* each call asks at most once, with a card that names one action on one   *)
(* tab; a card is decided once; and a call acts at most once, on the       *)
(* action its own card was allowed for, or without a card where the person *)
(* allowed the origin for its task.  A call whose card is open or was      *)
(* refused does not act.                                                   *)
(*                                                                         *)
(* BrowserCalls implements this specification (ConsentPromise there).      *)
(***************************************************************************)
CONSTANTS
  Calls, Tabs, Pages, Tasks, NoTask, TaskOf, ActionOrigin,
  Acting,   \* calls of a tool that acts
  OnceOnly  \* <<call, page>>: actions that are allowed once at a time only

VARIABLES
  answer, \* per call: none (not asked), open, or how its card ended
  card,   \* per call, the tab and page its card names
  done    \* what acting calls did: the call, the tab and the page

Allowing == {"approve", "allow-origin"}
Refusing == {"deny", "expired", "closed", "abandoned"}

Init ==
  /\ answer = [c \in Calls |-> "none"]
  /\ card = [c \in Calls |-> <<>>]
  /\ done = {}

\* The call asks the person about one action on one tab.
Ask(c) ==
  /\ answer[c] = "none"
  /\ answer' = [answer EXCEPT ![c] = "open"]
  /\ \E t \in Tabs, p \in Pages : card' = [card EXCEPT ![c] = <<t, p>>]
  /\ UNCHANGED done

\* The person allows what the card names.
Allow(c) ==
  /\ answer[c] = "open"
  /\ \E a \in Allowing : answer' = [answer EXCEPT ![c] = a]
  /\ UNCHANGED <<card, done>>

\* Cards end without leave: one by one, or all of a tab that is closed.
Refuse ==
  /\ \E ended \in SUBSET {c \in Calls : answer[c] = "open"}, r \in Refusing :
       answer' = [c \in Calls |-> IF c \in ended THEN r ELSE answer[c]]
  /\ UNCHANGED <<card, done>>

\* The origin was allowed, on the tab and for the task, by a card of its own.
Allowed(t, task, origin) ==
  \E d \in Calls :
    /\ answer[d] = "allow-origin" /\ TaskOf[d] = task /\ task # NoTask
    /\ \E p \in Pages :
         card[d] = <<t, p>> /\ ActionOrigin[d][p] = origin /\ <<d, p>> \notin OnceOnly

MayAct(c, t, p) ==
  \/ answer[c] \in Allowing /\ card[c] = <<t, p>>
  \/ /\ answer[c] = "none" /\ <<c, p>> \notin OnceOnly
     /\ Allowed(t, TaskOf[c], ActionOrigin[c][p])

Act(c, t, p) ==
  /\ MayAct(c, t, p)
  /\ \A d \in done : d.call # c
  /\ done' = done \cup {[call |-> c, tab |-> t, page |-> p]}
  /\ UNCHANGED <<answer, card>>

Next ==
  \/ \E c \in Calls : Ask(c) \/ Allow(c)
  \/ Refuse
  \/ \E c \in Acting, t \in Tabs, p \in Pages : Act(c, t, p)

Spec == Init /\ [][Next]_<<answer, card, done>>
=============================================================================
