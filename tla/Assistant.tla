----------------------------- MODULE Assistant -----------------------------
(***************************************************************************)
(* The AI assistant: conversations and the tool loop of the server         *)
(* (crates/services/src/ai/chat.rs, tools.rs, security.rs), with the chat  *)
(* screen that drives them (crates/app/src/screens/ai.rs).                 *)
(*                                                                         *)
(* A message goes to the provider with the history of its conversation.    *)
(* The provider answers, or asks for tools: safe ones run at once, those   *)
(* that change something wait for the user, with a placeholder as their    *)
(* result, until the screen confirms them.  Two conversations or two       *)
(* clicks may have requests in progress at the same time; every statement  *)
(* on the messages commits by itself.                                      *)
(*                                                                         *)
(* A tool runs under the permissions of the caller: whether it is allowed  *)
(* is left open here.  Choosing a provider and model, token counts and the *)
(* usage log are left out.                                                 *)
(***************************************************************************)
EXTENDS Naturals, Sequences, FiniteSets, FiniteSetsExt

CONSTANTS
    Conversations,
    Private,            \* the conversations in privacy mode
    ToolLists,          \* what a provider may ask for: sequences of "safe", "mutate"
    MaxIterations,      \* MAX_TOOL_ITERATIONS
    Faults,             \* may a request fail between two statements?
    \* bounds: requests, at a time, tool calls, and selections
    MaxRequests, MaxAtOnce, MaxCalls, MaxSelects

Requests == 1..MaxRequests
CallIds == 1..MaxCalls

None == "none"

\* Of the constants.
AssistantAssumption ==
    /\ Private \subseteq Conversations /\ None \notin Conversations
    /\ ToolLists \subseteq Seq({"safe", "mutate"}) \ {<<>>}
    /\ MaxIterations \in Nat \ {0} /\ Faults \in BOOLEAN
    /\ MaxRequests \in Nat /\ MaxAtOnce \in Nat /\ MaxCalls \in Nat /\ MaxSelects \in Nat

VARIABLES
    exists,     \* the conversations that are not deleted
    messages,   \* the messages of each, by id
    kind,       \* the tool calls providers asked for: "safe" or "mutate"
    runs,       \* how often each was executed
    presses,    \* how often the user confirmed it
    pc, job,    \* the step each request is at, and its locals
    selected,   \* the conversation the screen is on, or none
    shown,      \* the conversation whose messages it shows, or none
    card,       \* the calls that wait for Confirm, and whose they are
    loads,      \* the loads of messages in flight
    selects,    \* selections, for the bound
    tidy,       \* conversations whose requests ran one by one, whole, in order
    crossed     \* has an answer landed on the screen of another conversation?

server == <<exists, messages, kind, runs>>
screen == <<selected, shown, card, loads, selects>>
vars == <<server, presses, pc, job, screen, tidy, crossed>>

\* Calls are numbered as providers ask for them, so that a set of them has their order.
User == [role |-> "user", calls |-> {}, id |-> 0, pending |-> FALSE]
Text == [role |-> "assistant", calls |-> {}, id |-> 0, pending |-> FALSE]
Asks(calls) == [role |-> "assistant", calls |-> calls, id |-> 0, pending |-> FALSE]
Result(id) == [role |-> "tool", calls |-> {}, id |-> id, pending |-> FALSE]
Placeholder(id) == [role |-> "tool", calls |-> {}, id |-> id, pending |-> TRUE]

NoCard == [of |-> None, calls |-> {}]

\* history: what the provider is given; todo: the calls to work on still;
\* wait: those that need confirmation; iteration: of the tool loop.
IdleJob == [of |-> None, kind |-> "send", history |-> <<>>, todo |-> {},
            wait |-> {}, calls |-> {}, iteration |-> 1]

\* New conversations; the one that was active before is restored.
Init ==
    /\ exists = Conversations
    /\ messages = [k \in Conversations |-> <<>>]
    /\ kind = <<>>
    /\ runs = [i \in CallIds |-> 0]
    /\ presses = [i \in CallIds |-> 0]
    /\ pc = [r \in Requests |-> "new"]
    /\ job = [r \in Requests |-> IdleJob]
    /\ selected \in Conversations /\ shown = selected /\ card = NoCard
    /\ loads = {} /\ selects = 0
    /\ tidy = Conversations
    /\ crossed = FALSE

InFlight == {r \in Requests : pc[r] \notin {"new", "done"}}

\* The elements of a list at some of its places.
Nth(S, n) == CHOOSE i \in S : Cardinality({j \in S : j <= i}) = n
Those(rows, S) == [n \in 1..Cardinality(S) |-> rows[Nth(S, n)]]

-----------------------------------------------------------------------------
(* history_messages: a tool message counts only inside the block that      *)
(* follows a message that asks for tools.                                  *)

InBlock(rows, i) ==
    \E j \in 1..(i - 1) :
        /\ rows[j].calls # {}
        /\ \A n \in (j + 1)..(i - 1) : rows[n].role = "tool"

History(rows) == Those(rows, {i \in DOMAIN rows : rows[i].role = "tool" => InBlock(rows, i)})

\* The last message of the user, if a deletion has not taken it away.
LastUser(rows) ==
    LET users == {i \in DOMAIN rows : rows[i].role = "user"} IN
    IF users = {} THEN <<>> ELSE <<rows[CHOOSE i \in users : \A j \in users : j <= i]>>

\* What a provider accepts: every message that asks for tools is followed by
\* one result for each call, and a result stands nowhere else.
Accepted(history) ==
    /\ \A i \in DOMAIN history : history[i].calls # {} =>
          LET block == (i + 1)..(i + Cardinality(history[i].calls)) IN
          /\ block \subseteq DOMAIN history
          /\ {history[j].id : j \in block} = history[i].calls
    /\ \A i \in DOMAIN history : history[i].role = "tool" =>
          \E j \in 1..(i - 1) : history[i].id \in history[j].calls

-----------------------------------------------------------------------------
(* Steps of a request on the server.                                       *)

Goto(r, step, locals) ==
    /\ pc' = [pc EXCEPT ![r] = step]
    /\ job' = [job EXCEPT ![r] = locals]
    /\ UNCHANGED <<presses, screen, tidy, crossed>>

\* Of the locals, the screen needs what it asked for, and nothing when that failed.
Failed(r) == [IdleJob EXCEPT !.of = job[r].of]
Answered(r) == [Failed(r) EXCEPT !.kind = job[r].kind]

Store(r, message) ==
    messages' = [messages EXCEPT ![job[r].of] = Append(@, message)]

\* send_message: the conversation is there, and the text is stored.
Receive(r) ==
    /\ pc[r] = "receive"
    /\ IF job[r].of \in exists
       THEN Store(r, User) /\ Goto(r, "read", job[r])
       ELSE Goto(r, "error", Failed(r)) /\ UNCHANGED messages
    /\ UNCHANGED <<exists, kind, runs>>

\* In privacy mode only the current message goes to the provider.
Prior(k) == IF k \in Private THEN LastUser(messages[k]) ELSE History(messages[k])

ReadPrior(r) ==
    /\ pc[r] = "read"
    /\ Goto(r, "chat", [job[r] EXCEPT !.history = Prior(job[r].of)])
    /\ UNCHANGED server

\* The provider answers in words; without a word, or if it fails, it is an error.
Answers(r) ==
    /\ pc[r] = "chat"
    /\ \/ Store(r, Text) /\ Goto(r, "answered", Answered(r))
       \/ Goto(r, "error", Failed(r)) /\ UNCHANGED messages
    /\ UNCHANGED <<exists, kind, runs>>

\* Mutant of Waits: of a list that begins with a safe call, none waits.
WaitsUnlessMixed(list, i) == list[i] = "mutate" /\ list[1] = "mutate"

\* requires_confirmation
Waits(list, i) == list[i] = "mutate"

\* The provider asks for tools: new calls, which are stored with its message.
AsksForTools(r) ==
    /\ pc[r] = "chat" /\ job[r].kind = "send"
    /\ \E list \in ToolLists :
          LET id(i) == Len(kind) + i
              calls == {id(i) : i \in DOMAIN list}
              waiting == {id(i) : i \in {j \in DOMAIN list : Waits(list, j)}} IN
          /\ id(Len(list)) <= MaxCalls
          /\ kind' = kind \o list
          /\ Store(r, Asks(calls))
          /\ Goto(r, "tools", [job[r] EXCEPT
                !.history = Append(@, Asks(calls)), !.wait = waiting, !.todo = calls \ waiting])
    /\ UNCHANGED <<exists, runs>>

\* execute_tool: it may be forbidden, or fail; the result says so.
RunTool(r) ==
    /\ pc[r] = "tools" /\ job[r].todo # {}
    /\ LET id == Min(job[r].todo) IN
       /\ runs' = [runs EXCEPT ![id] = @ + 1]
       /\ Store(r, Result(id))
       /\ Goto(r, "tools", [job[r] EXCEPT !.todo = @ \ {id}, !.history = Append(@, Result(id))])
    /\ UNCHANGED <<exists, kind>>

\* All calls were safe: the provider is asked again, up to the limit.
NextIteration(r) ==
    /\ pc[r] = "tools" /\ job[r].todo = {} /\ job[r].wait = {}
    /\ IF job[r].iteration = MaxIterations THEN Goto(r, "error", Failed(r))
       ELSE Goto(r, "chat", [job[r] EXCEPT !.iteration = @ + 1])
    /\ UNCHANGED server

\* Mutant of Held: nothing is stored for the calls that wait.
HeldSilently(r) == messages

Held(r) == [messages EXCEPT ![job[r].of] = Append(@, Placeholder(Min(job[r].wait)))]

Hold(r) ==
    /\ pc[r] = "tools" /\ job[r].todo = {} /\ job[r].wait # {}
    /\ messages' = Held(r)
    /\ LET id == Min(job[r].wait)
           rest == job[r].wait \ {id} IN
       Goto(r, IF rest = {} THEN "confirm" ELSE "tools",
            [job[r] EXCEPT !.wait = rest, !.calls = @ \cup {id}, !.history = <<>>])
    /\ UNCHANGED <<exists, kind, runs>>

\* confirm_tool_calls: the conversation is there, which is asked once, and the placeholders go, one call
\* after the other, ...
DropPlaceholder(r) ==
    /\ pc[r] = "unhold"
    /\ IF job[r].of \notin exists /\ job[r].todo = job[r].calls
       THEN Goto(r, "error", Failed(r)) /\ UNCHANGED messages
       ELSE IF job[r].todo = {}
       THEN Goto(r, "apply", [job[r] EXCEPT !.todo = job[r].calls]) /\ UNCHANGED messages
       ELSE LET id == Min(job[r].todo) IN
            /\ messages' = [messages EXCEPT ![job[r].of] =
                  Those(@, {i \in DOMAIN @ : @[i].role # "tool" \/ @[i].id # id})]
            /\ Goto(r, "unhold", [job[r] EXCEPT !.todo = @ \ {id}])
    /\ UNCHANGED <<exists, kind, runs>>

\* ... each call is executed, whatever became of it before, ...
Apply(r) ==
    /\ pc[r] = "apply" /\ job[r].todo # {}
    /\ LET id == Min(job[r].todo) IN
       /\ \/ runs' = [runs EXCEPT ![id] = @ + 1]
          \/ UNCHANGED runs
       /\ Store(r, Result(id))
       /\ Goto(r, "apply", [job[r] EXCEPT !.todo = @ \ {id}])
    /\ UNCHANGED <<exists, kind>>

\* ... and the whole history goes to the provider, for a last word.
Applied(r) ==
    /\ pc[r] = "apply" /\ job[r].todo = {}
    /\ Goto(r, "chat", [job[r] EXCEPT !.history = History(messages[job[r].of])])
    /\ UNCHANGED server

\* A statement fails in the middle of a list of calls.
Fail(r) ==
    /\ Faults
    /\ pc[r] \in {"tools", "unhold", "apply"}
    /\ pc' = [pc EXCEPT ![r] = "error"] /\ job' = [job EXCEPT ![r] = Failed(r)]
    /\ tidy' = tidy \ {job[r].of}
    /\ UNCHANGED <<server, presses, screen, crossed>>

Step(r) ==
    \/ Receive(r) \/ ReadPrior(r) \/ Answers(r) \/ AsksForTools(r) \/ RunTool(r)
    \/ NextIteration(r) \/ Hold(r) \/ DropPlaceholder(r) \/ Apply(r) \/ Applied(r)

\* delete_conversation: the messages, then the row.
DeleteMessages(r) ==
    /\ pc[r] = "deleteMessages"
    /\ messages' = [messages EXCEPT ![job[r].of] = <<>>]
    /\ Goto(r, "deleteRow", job[r])
    /\ UNCHANGED <<exists, kind, runs>>

DeleteRow(r) ==
    /\ pc[r] = "deleteRow"
    /\ exists' = exists \ {job[r].of}
    /\ Goto(r, "deleted", Answered(r))
    /\ UNCHANGED <<messages, kind, runs>>

-----------------------------------------------------------------------------
(* The screen.  Its buttons show that it is busy, and stay enabled.        *)

OnlyIn(k) == \A r \in InFlight : job[r].of # k

\* A click makes the next request.
Click(step, locals) ==
    /\ Cardinality(InFlight) < MaxAtOnce
    /\ \E r \in Requests :
          /\ pc[r] = "new" /\ \A q \in 1..(r - 1) : pc[q] # "new"
          /\ pc' = [pc EXCEPT ![r] = step]
          /\ job' = [job EXCEPT ![r] = locals]
    /\ UNCHANGED <<server, screen, crossed>>

Send ==
    /\ selected # None
    /\ Click("receive", [IdleJob EXCEPT !.of = selected])
    /\ tidy' = IF OnlyIn(selected) THEN tidy ELSE tidy \ {selected}
    /\ UNCHANGED presses

\* Do the calls of the card stand at the end of the conversation, held?
AtEnd(k, calls) ==
    LET rows == messages[k]
        end == (Len(rows) - Cardinality(calls) + 1)..Len(rows) IN
    /\ Len(rows) >= Cardinality(calls)
    /\ {rows[i].id : i \in end} = calls /\ \A i \in end : rows[i].pending

\* The calls of the card, for the conversation that is selected now.
Confirm ==
    /\ card # NoCard /\ selected # None
    /\ presses' = [i \in CallIds |-> IF i \in card.calls THEN presses[i] + 1 ELSE presses[i]]
    /\ Click("unhold", [IdleJob EXCEPT !.of = selected, !.kind = "confirm",
                                       !.calls = card.calls, !.todo = card.calls])
    /\ tidy' = IF OnlyIn(selected) /\ AtEnd(selected, card.calls) THEN tidy ELSE tidy \ {selected}

Delete ==
    /\ \E k \in exists :
          /\ Click("deleteMessages", [IdleJob EXCEPT !.of = k, !.kind = "delete"])
          /\ tidy' = tidy \ {k}
    /\ UNCHANGED presses

\* Mutant of Loads: the messages are loaded for the first selection only.
LoadsOnce(k) == IF shown = None THEN loads \cup {k} ELSE loads

Loads(k) == loads \cup {k}

\* A row of the list is clicked, and its messages are asked for.
Select ==
    /\ selects < MaxSelects
    /\ \E k \in Conversations \ {selected} :
          selected' = k /\ selects' = selects + 1 /\ loads' = Loads(k)
    /\ UNCHANGED <<server, presses, pc, job, shown, card, tidy, crossed>>

\* The card comes back if the last message asks for tools: which it does only
\* until the first placeholder is stored.
Restored(k) ==
    LET rows == messages[k] IN
    IF rows # <<>> /\ rows[Len(rows)].calls # {}
    THEN [of |-> k, calls |-> rows[Len(rows)].calls] ELSE NoCard

LoadArrives ==
    \E k \in loads :
        /\ loads' = loads \ {k}
        /\ IF k \in exists
           THEN shown' = k /\ card' = Restored(k) /\ crossed' = (selected # k)
           ELSE UNCHANGED <<shown, card, crossed>>
        /\ UNCHANGED <<server, presses, pc, job, selected, selects, tidy>>

\* The answer lands: the messages of its conversation are loaded and shown,
\* whatever is selected now; an error is a toast.
Land(r) ==
    /\ pc[r] \in {"answered", "confirm", "error", "deleted"}
    /\ pc' = [pc EXCEPT ![r] = "done"]
    /\ IF pc[r] \in {"answered", "confirm"}
       THEN /\ shown' = IF job[r].of \in exists THEN job[r].of ELSE shown
            /\ crossed' = (crossed \/ selected # job[r].of)
            /\ card' = IF pc[r] = "confirm" THEN [of |-> job[r].of, calls |-> job[r].calls]
                       ELSE IF job[r].kind = "confirm" THEN NoCard ELSE card
            /\ UNCHANGED selected
       ELSE IF pc[r] = "deleted" /\ selected = job[r].of
       THEN selected' = None /\ shown' = None /\ card' = NoCard /\ crossed' = FALSE
       ELSE UNCHANGED <<selected, shown, card, crossed>>
    /\ job' = [job EXCEPT ![r] = IdleJob]
    /\ UNCHANGED <<server, presses, loads, selects, tidy>>

-----------------------------------------------------------------------------
Next ==
    \/ Send \/ Confirm \/ Delete \/ Select \/ LoadArrives
    \/ \E r \in Requests :
          Step(r) \/ DeleteMessages(r) \/ DeleteRow(r) \/ Fail(r) \/ Land(r)

Spec == Init /\ [][Next]_vars

-----------------------------------------------------------------------------
(* Properties.                                                             *)

Steps == {"new", "receive", "read", "chat", "tools", "unhold", "apply", "deleteMessages", "deleteRow",
          "answered", "confirm", "error", "deleted", "done"}

\* The messages and locals there can be when so many calls were asked for: a result is of one of
\* them, and only the assistant asks for tools.
Row(asked) ==
    {m \in [role : {"user", "assistant", "tool"}, calls : SUBSET (1..asked), id : 0..asked, pending : BOOLEAN] :
        /\ m.role = "tool" <=> m.id # 0
        /\ m.calls # {} => m.role = "assistant"
        /\ m.pending => m.role = "tool"}
Job(asked) ==
    [of : Conversations \cup {None}, kind : {"send", "confirm", "delete"}, history : Seq(Row(asked)),
     todo : SUBSET (1..asked), wait : SUBSET (1..asked), calls : SUBSET (1..asked), iteration : Nat]

(* The state has its types; the calls of a request, of a message and of the *)
(* card are among those a provider asked for.                               *)
TypeOK ==
    /\ exists \subseteq Conversations /\ tidy \subseteq exists
    /\ kind \in Seq({"safe", "mutate"}) /\ Len(kind) <= MaxCalls
    /\ messages \in [Conversations -> Seq(Row(Len(kind)))]
    /\ runs \in [CallIds -> Nat] /\ presses \in [CallIds -> Nat]
    /\ pc \in [Requests -> Steps] /\ job \in [Requests -> Job(Len(kind))]
    /\ \A r \in InFlight : job[r].of \in Conversations
    /\ selected \in Conversations \cup {None} /\ shown \in Conversations \cup {None}
    /\ card \in [of : Conversations \cup {None}, calls : SUBSET (1..Len(kind))]
    /\ loads \subseteq Conversations /\ selects \in 0..MaxSelects /\ crossed \in BOOLEAN

(* A tool that changes something runs only when the user has confirmed it,  *)
(* and no more often: "Mutating tools are not executed automatically". A    *)
(* user who confirms twice runs it twice.                                   *)
ConfirmedRuns ==
    \A i \in DOMAIN kind : kind[i] = "mutate" => runs[i] <= presses[i]

\* A request that was confirmed has still to run the call.
Owed(r, i) == (pc[r] = "unhold" /\ i \in job[r].calls) \/ (pc[r] = "apply" /\ i \in job[r].todo)

\* A press of Confirm pays for one run; in the loop of tools only safe calls run.
PaidInv ==
    /\ \A r \in Requests : pc[r] = "tools" => \A i \in job[r].todo : kind[i] = "safe"
    /\ \A i \in CallIds :
          \/ i \in DOMAIN kind /\ kind[i] = "safe"
          \/ runs[i] + Cardinality({r \in Requests : Owed(r, i)}) <= presses[i]

(* The history a provider is given is one it accepts: every call of a       *)
(* message that asks for tools has its result right behind it.  That is so  *)
(* in a conversation whose requests came one by one, none was cut off, and  *)
(* whose calls were confirmed before anything else was said.                *)
HistoryAccepted ==
    \A r \in Requests :
        pc[r] = "chat" /\ job[r].of \in tidy => Accepted(job[r].history)

\* Result j stands behind message i, which asks for its call, with only results in between.
Behind(rows, i, j) ==
    i < j /\ rows[j].id \in rows[i].calls /\ \A n \in (i + 1)..j : rows[n].role = "tool"

\* All results are there, each once and behind its message, but for those of some calls.
Lacks(rows, some) ==
    /\ \A j \in DOMAIN rows : rows[j].role = "tool" => \E i \in DOMAIN rows : Behind(rows, i, j)
    /\ \A i \in DOMAIN rows : \A c \in rows[i].calls \ some : \E j \in DOMAIN rows : rows[j].id = c
    /\ \A j \in DOMAIN rows : rows[j].id \notin some
    /\ \A i, j \in DOMAIN rows : i # j =>
          rows[i].calls \cap rows[j].calls = {} /\ (rows[i].id = rows[j].id => rows[i].id = 0)

\* The calls are of one message, and nothing but results follows it.
Open(rows, calls) ==
    calls = {} \/ \E i \in DOMAIN rows :
        calls \subseteq rows[i].calls /\ \A n \in (i + 1)..Len(rows) : rows[n].role = "tool"

\* The calls whose results a request has still to store, and those it stores or drops results of.
Missing(r) ==
    CASE pc[r] = "tools" -> job[r].todo \cup job[r].wait
      [] pc[r] = "unhold" -> job[r].calls \ job[r].todo
      [] pc[r] = "apply" -> job[r].todo
      [] OTHER -> {}
Touched(r) == IF pc[r] = "unhold" THEN job[r].calls ELSE Missing(r)

\* What holds of a tidy conversation while a request is at work on it: its history is needed no
\* more once a call waits.
InOrder(r) ==
    /\ pc[r] \notin {"deleteMessages", "deleteRow"}
    /\ Lacks(messages[job[r].of], Missing(r)) /\ Open(messages[job[r].of], Touched(r))
    /\ pc[r] = "unhold" => job[r].todo \subseteq job[r].calls
    /\ pc[r] = "tools" => job[r].todo \cap job[r].wait = {}
    /\ pc[r] \in {"chat", "tools"} =>
          \/ Lacks(job[r].history, Missing(r)) /\ Open(job[r].history, Missing(r))
          \/ pc[r] = "tools" /\ job[r].todo = {} /\ job[r].wait # {}
TidyInv ==
    /\ \A r, q \in InFlight : job[r].of = job[q].of /\ job[r].of \in tidy => r = q
    /\ \A r \in InFlight : job[r].of \in tidy => InOrder(r)
    /\ \A k \in tidy : OnlyIn(k) => Lacks(messages[k], {})

(* When nothing is in flight, the screen shows the conversation that is     *)
(* selected, and its card is of that conversation: unless an answer landed  *)
(* while another one was selected.                                          *)
ScreenAgrees ==
    InFlight = {} /\ loads = {} /\ ~crossed /\ selected \in exists =>
        shown = selected /\ (card = NoCard \/ card.of = selected)

\* Until its messages have come, the conversation that is selected has a load in flight.
ScreenInv ==
    ~crossed /\ selected \in exists =>
        selected \in loads \/ (shown = selected /\ (card = NoCard \/ card.of = selected))

(* "Privacy mode: never send conversation history to the provider -- only   *)
(* the current user message (plus system prompt) leaves the CMS" (chat.rs). *)
PrivateStaysPrivate ==
    \A r \in Requests :
        pc[r] = "chat" /\ job[r].of \in Private /\ job[r].of \in tidy =>
            Cardinality({i \in DOMAIN job[r].history : job[r].history[i].role = "user"}) <= 1
=============================================================================
