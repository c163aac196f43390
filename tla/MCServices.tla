------------------------------ MODULE MCServices ------------------------------
(***************************************************************************)
(* The services whose state no other module shares, for TLC: the AI        *)
(* assistant, saved views, the migrations, and exports that are imported   *)
(* again.  A behaviour is of one of them, and the others stay as they      *)
(* begin.                                                                  *)
(***************************************************************************)
EXTENDS Naturals, Sequences, FiniteSets, TLC

CONSTANTS
    Faults,
    Conversations, Private, MaxIterations, MaxRequests, MaxAtOnce, MaxCalls, MaxSelects,
    Callers, Slugs, FirstSlug, MaxViews, AtOnce,
    Transactional, MaxStarts,
    Attributes, MaxAttributes, MaxEntries

VARIABLES
    of, \* the service this behaviour is of
    exists, messages, kind, runs, presses, pc, job, selected, shown, card, loads, selects, tidy, crossed,
    table, last, call, apart,
    objects, people, recorded, server, pending, step, before, dev, starts,
    attributes, kinds, stored, ticked, phase, file, mapping, back

\* A list of safe calls, and one of which the second call waits.
FewToolLists == {<<"safe">>, <<"safe", "mutate">>}

Chat == INSTANCE Assistant WITH ToolLists <- FewToolLists
\* What CSV tells apart, at the beginning, in the middle and at the end of a text.
FewTexts == {<<>>, <<"a", "\"">>, <<" ", "a">>, <<"\r">>, <<",">>, <<"\r", "\n">>}

Views == INSTANCE SavedViews
Migrate == INSTANCE Migrations
Export == INSTANCE Transfer WITH Texts <- FewTexts

ASSUME ServicesAssumption ==
    /\ Chat!AssistantAssumption /\ Views!ViewsAssumption
    /\ Migrate!MigrationsAssumption /\ Export!TransferAssumption

chat == <<exists, messages, kind, runs, presses, pc, job, selected, shown, card, loads, selects, tidy, crossed>>
views == <<table, last, call, apart>>
migrations == <<objects, people, recorded, server, pending, step, before, dev, starts>>
transfer == <<attributes, kinds, stored, ticked, phase, file, mapping, back>>
vars == <<of, chat, views, migrations, transfer>>

Init ==
    /\ of \in {"chat", "views", "migrations", "transfer"}
    /\ of = "migrations" \/ recorded = {}
    /\ of = "transfer" \/ (attributes = <<"name">> /\ kinds = [name |-> "text"] /\ stored = <<[name |-> <<>>]>>)
    /\ Views!Init /\ Chat!Init /\ Migrate!Init /\ Export!Init

Next ==
    \/ of = "chat" /\ Chat!Next /\ UNCHANGED <<of, views, migrations, transfer>>
    \/ of = "views" /\ Views!Next /\ UNCHANGED <<of, chat, migrations, transfer>>
    \/ of = "migrations" /\ Migrate!Next /\ UNCHANGED <<of, chat, views, transfer>>
    \/ of = "transfer" /\ Export!Next /\ UNCHANGED <<of, chat, views, migrations>>

Spec == Init /\ [][Next]_vars

AnyConversation == Permutations(Conversations)

-----------------------------------------------------------------------------
(* What is checked, stated in the modules of the services. *)

\* A tool that changes something runs only when the user confirmed it (chat.rs, confirm_tool_calls).
ConfirmedRuns == Chat!ConfirmedRuns

\* The history sent to a provider is one that providers accept (chat.rs, send_message).
HistoryAccepted == Chat!HistoryAccepted

\* The chat screen comes to show the conversation that is selected (ai.rs).
ScreenAgrees == Chat!ScreenAgrees

\* Calls that do not overlap keep a view, and exactly one default (views.rs).
OneDefault == Views!OneDefault

\* A server that serves has every table, wherever its migrations were cut off, and what a start was cut
\* off in, the next one goes on with (migration.rs).
MigrationsFinish == of = "migrations" => Migrate!ServesMigrated /\ Migrate!Resumes

\* What is exported and imported again comes back (exporter.rs, parser.rs, mapper.rs).
RoundTrips == of = "transfer" => Export!RoundTrips
=============================================================================
