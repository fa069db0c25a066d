------------------------------ MODULE WorldLoader ------------------------------
(***************************************************************************)
(* The scripts that put a generated world into the database, beside each   *)
(* other and beside a service that answers a ticket of the world they      *)
(* replace.  Both scripts generate first; ids come from the seed, so a     *)
(* regenerated ticket has the id, and the thread, of the one before.       *)
(*                                                                         *)
(* One ticket stands for all: its seeded row, the messages and checkpoints *)
(* that turns have added to it.  PostgreSQL is at READ COMMITTED: a DELETE *)
(* takes what is committed when it starts, and waits for locked rows.      *)
(***************************************************************************)
EXTENDS SyntheticWorld

CONSTANTS
  Loaders,  \* runs of seed_demo.py and generate_data.py
  Turns,    \* customer turns on the ticket
  Nobody    \* no transaction has locked the ticket's row

ASSUME LoadersAssumption ==
  /\ IsFiniteSet(Loaders) /\ Loaders \intersect Turns = {}
  /\ Nobody \notin Loaders \union Turns

VARIABLES
  loader,   \* each script's pc, kind, and what its DELETEs have taken
  turn,     \* each turn's progress
  rows,     \* number of the load whose world is committed, 0 for none
  loads,    \* loads committed so far
  thread,   \* turns that have a committed checkpoint in the thread
  messages, \* turns that have a committed message
  locker,   \* who has locked the ticket's row, or its key
  besides   \* history: turns that ran while a script was replacing the world

loaderVars == <<loader, turn, rows, loads, thread, messages, locker, besides>>
allVars == <<worldVars, loaderVars>>

Script == [pc : {"new", "threads", "messages", "tickets", "insert", "commit",
                 "export", "exported", "left"},
           replaces : BOOLEAN, old : 0 .. Cardinality(Loaders),
           threads : SUBSET Turns, messages : SUBSET Turns]

LoaderInit ==
  /\ WorldInit
  /\ loader = [l \in Loaders |-> [pc |-> "new", replaces |-> FALSE, old |-> 0,
                                  threads |-> {}, messages |-> {}]]
  /\ turn = [u \in Turns |-> "new"]
  /\ rows = 0 /\ loads = 0
  /\ thread = {} /\ messages = {} /\ besides = {}
  /\ locker = Nobody

At(l, pc) == loader[l].pc = pc
Replacing(l) == loader[l].pc \in {"threads", "messages", "tickets", "insert", "commit"}
Leaves(l) == loader' = [loader EXCEPT ![l].pc = "left"]
Goes(l, pc) == loader' = [loader EXCEPT ![l].pc = pc]

Alongside == {u \in Turns : turn[u] \in {"asked", "answered"}}
Noted == besides' = IF \E l \in Loaders : Replacing(l) THEN besides \union Alongside
                                                       ELSE besides

-----------------------------------------------------------------------------
(* The scripts *)

\* operational_row_count: what is there decides, once.  Over a world seed_demo
\* does nothing, and generate_data replaces it with --replace or does nothing.
Count(l) ==
  /\ world = "ready" /\ At(l, "new")
  /\ \/ rows = 0 /\ Goes(l, "insert")
     \/ rows # 0 /\ Leaves(l)
     \/ rows # 0 /\ loader' = [loader EXCEPT ![l].pc = "threads", ![l].replaces = TRUE]
  /\ UNCHANGED <<turn, rows, loads, thread, messages, locker>>

\* Mutant of DeleteThreads: the checkpoint tables are not the ORM's.
DeleteThreadsOfModels(l) ==
  /\ At(l, "threads")
  /\ Goes(l, "messages")
  /\ UNCHANGED <<turn, rows, loads, thread, messages, locker>>

DeleteThreads(l) ==
  /\ At(l, "threads")
  /\ loader' = [loader EXCEPT ![l].pc = "messages", ![l].threads = thread]
  /\ UNCHANGED <<turn, rows, loads, thread, messages, locker>>

DeleteMessages(l) ==
  /\ At(l, "messages")
  /\ loader' = [loader EXCEPT ![l].pc = "tickets", ![l].old = rows,
                              ![l].messages = messages]
  /\ UNCHANGED <<turn, rows, loads, thread, messages, locker>>

\* The ticket goes only when nothing refers to it: neither a message of a turn
\* nor the message another script loaded it with.
DeleteTickets(l) ==
  /\ At(l, "tickets") /\ locker = Nobody
  /\ IF messages \subseteq loader[l].messages /\ rows = loader[l].old
       THEN Goes(l, "insert") /\ locker' = l
       ELSE Leaves(l) /\ UNCHANGED locker
  /\ UNCHANGED <<turn, rows, loads, thread, messages>>

\* Mutant of PersistWorld: the rows have no keys in common.
PersistWorldUnkeyed(l) ==
  /\ At(l, "insert") /\ locker \in {Nobody, l}
  /\ Goes(l, "commit") /\ locker' = l
  /\ UNCHANGED <<turn, rows, loads, thread, messages>>

\* The keys are the same in every world: an INSERT waits for another script's and
\* fails once that one has committed.
PersistWorld(l) ==
  /\ At(l, "insert") /\ locker \in {Nobody, l}
  /\ IF rows = 0 \/ locker = l
       THEN Goes(l, "commit") /\ locker' = l
       ELSE Leaves(l) /\ UNCHANGED locker
  /\ UNCHANGED <<turn, rows, loads, thread, messages>>

CommitWorld(l) ==
  /\ At(l, "commit")
  /\ Goes(l, "export") /\ locker' = Nobody
  /\ loads' = loads + 1 /\ rows' = loads'
  /\ thread' = thread \ loader[l].threads
  /\ messages' = messages \ loader[l].messages
  /\ UNCHANGED turn

\* export_scenarios writes the fixtures after the commit.
Export(l) ==
  /\ At(l, "export")
  /\ Goes(l, "exported")
  /\ UNCHANGED <<turn, rows, loads, thread, messages, locker>>

\* The script is interrupted, or the database refuses a statement.
Break(l) ==
  /\ Replacing(l) \/ At(l, "export")
  /\ Leaves(l)
  /\ locker' = IF locker = l THEN Nobody ELSE locker
  /\ UNCHANGED <<turn, rows, loads, thread, messages>>

-----------------------------------------------------------------------------
(* A turn of the service, as TicketDesk has it *)

\* Mutant of Ask: the message does not touch the ticket's row.
AskWithoutBump(u) ==
  /\ turn[u] = "new" /\ rows # 0
  /\ turn' = [turn EXCEPT ![u] = "asked"]
  /\ UNCHANGED <<loader, rows, loads, thread, messages, locker>>

\* The message is flushed under the row's lock.
Ask(u) ==
  /\ turn[u] = "new" /\ rows # 0 /\ locker = Nobody
  /\ turn' = [turn EXCEPT ![u] = "asked"] /\ locker' = u
  /\ UNCHANGED <<loader, rows, loads, thread, messages>>

\* Checkpoints are committed at once.
Run(u) ==
  /\ turn[u] = "asked"
  /\ turn' = [turn EXCEPT ![u] = "answered"] /\ thread' = thread \union {u}
  /\ UNCHANGED <<loader, rows, loads, messages, locker>>

\* The turn commits, or dies.
End(u) ==
  /\ turn[u] \in {"asked", "answered"}
  /\ turn' = [turn EXCEPT ![u] = "over"] /\ locker' = Nobody
  /\ messages' \in {messages, messages \union {u}}
  /\ UNCHANGED <<loader, rows, loads, thread>>

LoaderStep ==
  \/ \E l \in Loaders :
       \/ Count(l) \/ DeleteThreads(l) \/ DeleteMessages(l) \/ DeleteTickets(l)
       \/ PersistWorld(l) \/ CommitWorld(l) \/ Export(l) \/ Break(l)
  \/ \E u \in Turns : Ask(u) \/ Run(u) \/ End(u)

\* Scripts and turns are over within a day.
AtRest ==
  /\ \A l \in Loaders : loader[l].pc \in {"new", "exported", "left"}
  /\ Alongside = {}

LoaderNext ==
  \/ LoaderStep /\ Noted /\ UNCHANGED worldVars
  \/ Generate /\ UNCHANGED loaderVars
  \/ AtRest /\ Later /\ UNCHANGED loaderVars

LoaderSpec == LoaderInit /\ [][LoaderNext]_allVars

-----------------------------------------------------------------------------
(* Properties *)

\* One transaction at a time works on the ticket: a script between its DELETE or
\* INSERT and its commit, or a turn between its message and its commit.
LoaderTypeOK ==
  /\ loader \in [Loaders -> Script]
  /\ turn \in [Turns -> {"new", "asked", "answered", "over"}]
  /\ loads \in 0 .. Cardinality(Loaders) /\ rows = loads
  /\ thread \subseteq Turns /\ messages \subseteq Turns /\ besides \subseteq Turns
  /\ \A l \in Loaders : At(l, "commit") => locker = l
  /\ \A u \in Alongside : locker = u

\* A world in use is only ever replaced on request: of scripts that start
\* together one loads its world, and a seed never follows another load.
WorldsStay ==
  [][rows # 0 /\ rows' # rows =>
       \E l \in Loaders : loader[l].replaces /\ At(l, "commit")
                          /\ loader'[l].pc = "export"]_allVars

\* A regenerated ticket has no message but its seeded one, and no thread of its
\* predecessor, unless a turn ran while the script did.
ReplacedWorldsStartFresh ==
  [][rows' # rows => messages' = {} /\ thread' \subseteq besides]_allVars
=============================================================================
