------------------------------- MODULE Monitors -------------------------------
(***************************************************************************)
(* What the master tells its monitors, and piw-sense, which shows it.      *)
(* SlaveDriver and BigBrother push their news to the master, which         *)
(* publishes it; when any monitor says HELLO the master asks both to say   *)
(* all they know again.  piw-sense keeps a list of the slaves, shows the   *)
(* list and the statistics of the selected entry, or the page of one node  *)
(* with its controls.  Texts, colours and graphs are left out; the reply   *)
(* that a slave is given is SlaveDriver's matter.                          *)
(***************************************************************************)
EXTENDS Integers, Sequences, SequencesExt

CONSTANTS
  Slaves,     \* ids, in the order in which they are given out
  Master,     \* the id of the master's own entry: less than those of slaves
  Rank,       \* the place of a slave among its fellows, by ABI and label
  Answers,    \* replies to a slave
  History,    \* maxlen of the statistics
  Rows,       \* places for the cursor, here in one column
  HasPages,   \* bound: whether the stick leaves the main page
  Nobody,     \* no entry is selected
  NoNode,     \* the screen shows no node
  MaxNews, MaxHellos, MaxSent  \* bounds

VARIABLES
  joined, present, reply, stats,  \* SlaveDriver's slaves, BigBrother's history
  news,       \* bound: statistics sent so far
  toDriver, toBrother,          \* HELLOs on their way to the tasks
  hellos,     \* bound: HELLOs of monitors handled by the master
  feed,       \* news on their way through the master to our monitor
  subscribed, \* our monitor is attached
  synced,     \* history: since then the driver has said all it knows
  listed, view,                 \* SlaveList.slaves: ids in order, and the entries
  connected,
  cursor, bars,                 \* MainRenderer: the cursor, and whose numbers are shown
  page,       \* the active renderer
  node,       \* NodeRenderer: its entry, selected control, mode ...
  alive       \* the ScreenTask

taskVars == <<joined, present, reply, stats>>
helloVars == <<toDriver, toBrother, hellos>>
masterVars == <<taskVars, news, helloVars>>
screenVars == <<listed, view, connected, cursor, bars, page, node, alive>>
feedVars == <<feed, subscribed, synced>>
monitorVars == <<masterVars, feedVars, screenVars>>

Ids == Slaves \cup {Master}
MonitorTypeOK ==
  /\ present \subseteq joined /\ joined \subseteq Slaves
  /\ DOMAIN view = ToSet(listed) /\ Master \in DOMAIN view
  /\ cursor \in 0..(Rows - 1)
  /\ page \in {"main", "help", "quit", "node"}
  /\ (page = "node") = (node # NoNode)

-----------------------------------------------------------------------------
\* The messages.
Slave(s, m) == [id |-> s, msg |-> m, stat |-> 0]
Stat(i, n) == [id |-> i, msg |-> "STATS", stat |-> n]

\* A deque of bounded length.
Push(q, n) == IF Len(q) < History THEN Append(q, n) ELSE Append(Tail(q), n)

\* Mutant of Hello: the statistics are not said again.
HelloOnly(s) == <<Slave(s, "HELLO"), Slave(s, reply[s])>>

\* SlaveState.hello: all that is known of a slave.
Hello(s) ==
  <<Slave(s, "HELLO")>> \o [k \in DOMAIN stats[s] |-> Stat(s, stats[s][k])]
  \o <<Slave(s, reply[s])>>

\* A new slave: HELLO, and ACK as its reply.
Join(s) ==
  /\ s \notin joined /\ \A o \in Slaves : o < s => o \in joined
  /\ joined' = joined \cup {s} /\ present' = present \cup {s}
  /\ feed' = feed \o <<Slave(s, "HELLO"), Slave(s, "ACK")>>
  /\ UNCHANGED <<reply, stats, news, helloVars, subscribed, synced, screenVars>>

\* A request with statistics, or without, and its reply.
Request(s, has, r) ==
  /\ s \in present /\ reply[s] # "DIE"
  /\ news < MaxNews /\ news' = news + 1
  /\ stats' = IF has THEN [stats EXCEPT ![s] = Push(@, news')] ELSE stats
  /\ reply' = IF r = "CONT" THEN reply ELSE [reply EXCEPT ![s] = r]
  /\ feed' = feed \o (IF has THEN <<Stat(s, news')>> ELSE <<>>)
                  \o (IF r = "CONT" THEN <<>> ELSE <<Slave(s, r)>>)
  /\ UNCHANGED <<joined, present, helloVars, subscribed, synced, screenVars>>

\* do_bye, or remove_expired: a fake DIE.
Leave(s) ==
  /\ s \in present
  /\ present' = present \ {s}
  /\ feed' = Append(feed, Slave(s, "DIE"))
  /\ UNCHANGED <<joined, reply, stats, news, helloVars, subscribed, synced, screenVars>>

\* HELLO in SlaveDriver.handle_control.
DriverHello ==
  /\ toDriver > 0 /\ toDriver' = toDriver - 1
  /\ LET order == SetToSortSeq(present, <) IN
     feed' = feed \o FlattenSeq([k \in DOMAIN order |-> Hello(order[k])])
  /\ synced' = (synced \/ subscribed)
  /\ UNCHANGED <<taskVars, news, toBrother, hellos, subscribed, screenVars>>

\* BigBrother: update_stats, and STATS in its handle_control.
UpdateStats ==
  /\ news < MaxNews /\ news' = news + 1
  /\ stats' = [stats EXCEPT ![Master] = Push(@, news')]
  /\ feed' = Append(feed, Stat(Master, news'))
  /\ UNCHANGED <<joined, present, reply, helloVars, subscribed, synced, screenVars>>

ReplayStats ==
  /\ toBrother > 0 /\ toBrother' = toBrother - 1
  /\ feed' = feed \o [k \in DOMAIN stats[Master] |-> Stat(Master, stats[Master][k])]
  /\ UNCHANGED <<taskVars, news, toDriver, hellos, subscribed, synced, screenVars>>

\* do_hello, for our monitor or for another one: the master publishes its own
\* HELLO past the news that it has still to read.
MasterHello ==
  /\ hellos < MaxHellos /\ hellos' = hellos + 1
  /\ IF subscribed
     THEN \E k \in 1..(Len(feed) + 1) : feed' = InsertAt(feed, k, Slave(Master, "HELLO"))
     ELSE UNCHANGED feed
  /\ toDriver' = toDriver + 1 /\ toBrother' = toBrother + 1
  /\ UNCHANGED <<taskVars, news, subscribed, synced, screenVars>>

\* broadcast_status, while nobody listens.
Unheard ==
  /\ ~subscribed /\ feed # <<>>
  /\ feed' = Tail(feed)
  /\ UNCHANGED <<masterVars, subscribed, synced, screenVars>>

\* Our monitor is attached, before it says HELLO.
Subscribe ==
  /\ ~subscribed /\ subscribed' = TRUE
  /\ UNCHANGED <<masterVars, feed, synced, screenVars>>

-----------------------------------------------------------------------------
\* The entries.
NewEntry == [hello |-> FALSE, last |-> "", status |-> "", stats |-> <<>>, killed |-> FALSE]

\* update() of MasterState and SlaveState.
Updated(e, m) ==
  [e EXCEPT !.last = m.msg,
            !.status = IF m.msg = "STATS" THEN @ ELSE m.msg,
            !.hello = @ \/ m.msg = "HELLO",
            !.stats = CASE m.msg = "HELLO" -> <<>>
                        [] m.msg = "STATS" -> Push(@, m.stat)
                        [] OTHER -> @,
            !.killed = @ \/ m.msg = "DIE"]

EntryOf(v, i) == IF i \in DOMAIN v THEN v[i] ELSE NewEntry
Told(v, m) ==
  [i \in DOMAIN v \cup {m.id} |-> IF i = m.id THEN Updated(EntryOf(v, i), m) ELSE v[i]]

\* _sorted_list: by ABI and label, which an entry has once it has said HELLO.
KeyOf(v, i) == IF i = Master THEN -1 ELSE IF v[i].hello THEN Rank[i] ELSE 0
Sorted(l, v) ==
  LET before(j, k) == KeyOf(v, l[j]) < KeyOf(v, l[k])
                      \/ (KeyOf(v, l[j]) = KeyOf(v, l[k]) /\ j < k)
      order == SetToSortSeq(DOMAIN l, before)
  IN  [k \in DOMAIN l |-> l[order[k]]]
Selected(c, l, v) == IF c < Len(l) THEN Sorted(l, v)[c + 1] ELSE Nobody

Numbers(i, v) == IF i = Nobody THEN <<>> ELSE v[i].stats
Shown(i, v) == [who |-> i, numbers |-> Numbers(i, v)]

\* watch_selection, around a change of the cursor, the list or the entries.
Watch(c, l, v) ==
  LET before == Selected(cursor, listed, view)
      after == Selected(c, l, v)
  IN  IF before # after THEN Shown(after, v) ELSE bars

\* Mutant of Prune: the selection is not watched.
PruneUnwatched(dead) ==
  /\ listed' = SelectSeq(listed, LAMBDA i : i \notin dead)
  /\ view' = [i \in DOMAIN view \ dead |-> view[i]]
  /\ UNCHANGED <<cursor, bars>>

\* SlaveList.prune.
Prune(dead) ==
  /\ listed' = SelectSeq(listed, LAMBDA i : i \notin dead)
  /\ view' = [i \in DOMAIN view \ dead |-> view[i]]
  /\ bars' = Watch(cursor, listed', view')
  /\ UNCHANGED cursor

-----------------------------------------------------------------------------
\* The pages of the nodes.
Kinds == {"action", "quit", "label", "live", "history"}
NodePage(i) == [id |-> i, kind |-> "label", mode |-> "text", fresh |-> FALSE, owed |-> FALSE]

\* A message for the node on the page: its time is later than that of the last
\* update, unless it says again what was known.  The time of the master is
\* that of whatever came last.
Owed(m, again) ==
  IF node = NoNode THEN {node}
  ELSE IF node.id = Master /\ m.id # Master THEN {[node EXCEPT !.owed = b] : b \in BOOLEAN}
  ELSE IF node.id = m.id /\ ~again THEN {[node EXCEPT !.owed = TRUE]}
  ELSE {node}

\* A slave that says HELLO again repeats itself until its last reply.
Again(m) == m.id # Master /\ m.id \in DOMAIN view /\ view[m.id].hello
            /\ (m.msg = "HELLO" \/ m.stat \in ToSet(view[m.id].stats))

\* handle_status and MainRenderer.message.
HandleStatus ==
  /\ alive /\ subscribed /\ feed # <<>>
  /\ LET m == Head(feed) IN
     /\ connected' = (connected \/ (m.id = Master /\ m.msg = "HELLO"))
     /\ listed' = IF m.id \in DOMAIN view THEN listed ELSE Append(listed, m.id)
     /\ view' = Told(view, m)
     /\ bars' = IF Selected(cursor, listed', view') = m.id THEN Shown(m.id, view')
                ELSE Watch(cursor, listed', view')
     /\ node' \in Owed(m, Again(m))
  /\ feed' = Tail(feed)
  /\ UNCHANGED <<masterVars, subscribed, synced, cursor, page, alive>>

\* history() of a control, and update() of UpTime: these raise.
HistoryRaises == view[node.id].stats = <<>>
UpdateRaises == ~view[node.id].hello \/ (node.kind = "history" /\ HistoryRaises)
\* The time of a HELLO said again is that of the first one.
Due == ~node.fresh \/ (node.owed /\ view[node.id].last # "HELLO")
       \/ (node.owed /\ node.id = Master)

\* refresh: the next frame of the active renderer.
RefreshMain ==
  /\ alive /\ page = "main" /\ connected
  /\ \E dead \in SUBSET {i \in DOMAIN view : view[i].killed} : Prune(dead)
  /\ UNCHANGED <<masterVars, feedVars, connected, page, node, alive>>

RefreshNode ==
  /\ alive /\ page = "node" /\ Due
  /\ IF UpdateRaises THEN alive' = FALSE /\ UNCHANGED node
     ELSE node' = [node EXCEPT !.fresh = TRUE, !.owed = FALSE] /\ UNCHANGED alive
  /\ UNCHANGED <<masterVars, feedVars, listed, view, connected, cursor, bars, page>>

MoveTo(c) ==
  /\ cursor' = c
  /\ bars' = Watch(c, listed, view)
  /\ UNCHANGED <<listed, view>>

\* The stick on the main page; the position of the help page and of the exits
\* below the list is left out.
MoveMain(d) ==
  /\ alive /\ page = "main" /\ connected
  /\ CASE d = "up" /\ cursor = 0 ->
            HasPages /\ page' = "help" /\ UNCHANGED <<cursor, bars, listed, view>>
       [] d = "down" /\ cursor = Rows - 1 ->
            HasPages /\ page' = "quit" /\ UNCHANGED <<cursor, bars, listed, view>>
       [] OTHER -> MoveTo(IF d = "up" THEN cursor - 1 ELSE cursor + 1) /\ UNCHANGED page
  /\ UNCHANGED <<masterVars, feedVars, connected, node, alive>>

EnterMain ==
  /\ alive /\ page = "main" /\ connected /\ HasPages
  /\ Selected(cursor, listed, view) # Nobody
  /\ page' = "node" /\ node' = NodePage(Selected(cursor, listed, view))
  /\ UNCHANGED <<masterVars, feedVars, listed, view, connected, cursor, bars, alive>>

\* From help, down to the first row; from the exits, up to where it was.
BackToMain ==
  /\ alive /\ page \in {"help", "quit"}
  /\ page' = "main"
  /\ IF page = "help" THEN MoveTo(0) ELSE UNCHANGED <<cursor, bars, listed, view>>
  /\ UNCHANGED <<masterVars, feedVars, connected, node, alive>>

\* NodeRenderer.move, in one step or several, to a control of another kind.
MoveNode(k) ==
  /\ alive /\ page = "node" /\ node.kind # k
  /\ k = "quit" => node.id = Master
  /\ LET mode == IF k = "history" THEN node.mode ELSE "text" IN
     /\ node' = [node EXCEPT !.kind = k, !.mode = mode]
     /\ alive' = ~(mode = "graph" /\ HistoryRaises)
  /\ UNCHANGED <<masterVars, feedVars, listed, view, connected, cursor, bars, page>>

\* _run_actions of the selected control.  A control message has the node's id
\* as its data and, for the master, none: but the protocol demands data of
\* every control message except QUIT.
EnterNode ==
  /\ alive /\ page = "node"
  /\ CASE node.kind = "label" \/ node.kind = "quit" \/ (node.kind = "action" /\ node.id # Master) ->
            page' = "main" /\ node' = NoNode /\ UNCHANGED alive
       [] node.kind = "action" /\ node.id = Master ->
            alive' = FALSE /\ UNCHANGED <<page, node>>
       [] node.kind = "history" ->
            /\ node' = [node EXCEPT !.mode = IF @ = "text" THEN "graph" ELSE "text"]
            /\ alive' = ~(node.mode = "text" /\ (~node.fresh \/ HistoryRaises))
            /\ UNCHANGED page
       [] node.kind = "live" -> UNCHANGED <<page, node, alive>>
  /\ UNCHANGED <<masterVars, feedVars, listed, view, connected, cursor, bars>>

MonitorInit ==
  /\ joined = {} /\ present = {}
  /\ reply = [s \in Slaves |-> "ACK"] /\ stats = [i \in Ids |-> <<>>]
  /\ news = 0
  /\ toDriver = 0 /\ toBrother = 0 /\ hellos = 0
  /\ subscribed = FALSE /\ synced = FALSE /\ feed = <<>>
  /\ listed = <<Master>> /\ view = [i \in {Master} |-> NewEntry]
  /\ connected = FALSE /\ cursor = 0 /\ bars = [who |-> Master, numbers |-> <<>>]
  /\ page = "main" /\ node = NoNode /\ alive = TRUE

MonitorNext ==
  \/ /\ Len(feed) < MaxSent
     /\ \/ \E s \in Slaves : Join(s) \/ Leave(s) \/ \E has \in BOOLEAN, r \in Answers : Request(s, has, r)
        \/ DriverHello \/ UpdateStats \/ ReplayStats \/ MasterHello
  \/ Unheard \/ Subscribe
  \/ HandleStatus \/ RefreshMain \/ RefreshNode
  \/ (\E d \in {"up", "down"} : MoveMain(d)) \/ EnterMain \/ BackToMain
  \/ (\E k \in Kinds : MoveNode(k)) \/ EnterNode

MonitorSpec == MonitorInit /\ [][MonitorNext]_monitorVars

-----------------------------------------------------------------------------
\* What the view becomes with all that is on its way.
Coming == SelectSeq(feed, LAMBDA m : m.id # Master)
Final == FoldLeft(Told, view, Coming)

\* Once the driver has said all it knows, what the monitor shows of a slave,
\* together with what is on its way, is what the driver knows of it, although
\* the news of slaves that come and go mixes with what is said again for other
\* monitors; and an entry without a slave is bound to go.
ViewCatchesUp ==
  /\ synced /\ subscribed => \A s \in present :
       reply[s] # "DIE" => /\ s \in DOMAIN Final
                           /\ Final[s].status = reply[s]
                           /\ Final[s].stats = stats[s]
  /\ \A s \in DOMAIN Final \ {Master} : s \notin present => Final[s].killed

\* The bars at the top are those of the entry under the cursor, and up to
\* date, although entries come, go and change places while the cursor stays.
BarsAreSelected ==
  LET i == Selected(cursor, listed, view) IN
  bars = Shown(i, view)

\* docs/sense.rst has the stick "kill builds slaves that are having issues, or
\* terminate the master itself": no use of it, and no message, ends the screen.
ScreenStaysUp == alive
=============================================================================
