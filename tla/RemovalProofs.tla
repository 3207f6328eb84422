----------------------------- MODULE RemovalProofs -----------------------------
(***************************************************************************)
(* What is left of a package or a version that PyPI removes: theorems      *)
(* about Website and their proofs.                                         *)
(***************************************************************************)
EXTENDS WebsiteProofs

-----------------------------------------------------------------------------
(* How far the tasks are: a removal and the end of a build are sequences of *)
(* statements without a branch, of which the last n are left.               *)

Rest(k, n) ==
  IF n = 4 THEN <<Test("skip", k, "deleted", <<>>, <<>>), Do("DEL", k), Do("ack", k),
                  Do("delete", k)>>
  ELSE IF n = 3 THEN <<Do("DEL", k), Do("ack", k), Do("delete", k)>>
  ELSE IF n = 2 THEN <<Do("ack", k), Do("delete", k)>>
  ELSE IF n = 1 THEN <<Do("delete", k)>>
  ELSE <<>>

At(k, n) ==
  event = [action |-> "remove", key |-> k] /\ todo["gazer"] = Rest(k, n)

News(status) == IF status THEN "BOTH" ELSE "PROJECT"
BuildRest(b, status, n) ==
  IF n = 3 THEN <<LogBuild(b, status), Do("LOG", b), Do(News(status), Package(b[1]))>>
  ELSE IF n = 2 THEN <<Do("LOG", b), Do(News(status), Package(b[1]))>>
  ELSE <<Do(News(status), Package(b[1]))>>

Building(b, status, n) == todo["driver"] = BuildRest(b, status, n)

LEMMA RestSteps ==
  ASSUME NEW k
  PROVE  /\ \A n \in 1..4 : Rest(k, n) # <<>> /\ Tail(Rest(k, n)) = Rest(k, n - 1)
         /\ Head(Rest(k, 4)) = Test("skip", k, "deleted", <<>>, <<>>)
         /\ Head(Rest(k, 3)) = Do("DEL", k)
         /\ Head(Rest(k, 2)) = Do("ack", k)
         /\ Head(Rest(k, 1)) = Do("delete", k)
         /\ Rest(k, 0) = <<>>
         /\ \A n \in 0..4 : Len(Rest(k, n)) = n
  <1>1. ASSUME NEW a, NEW b, NEW c, NEW d
        PROVE  /\ Tail(<<a, b, c, d>>) = <<b, c, d>> /\ Head(<<a, b, c, d>>) = a
               /\ Tail(<<b, c, d>>) = <<c, d>> /\ Head(<<b, c, d>>) = b
               /\ Tail(<<c, d>>) = <<d>> /\ Head(<<c, d>>) = c
               /\ Tail(<<d>>) = <<>> /\ Head(<<d>>) = d
               /\ <<a, b, c, d>> # <<>> /\ <<b, c, d>> # <<>> /\ <<c, d>> # <<>> /\ <<d>> # <<>>
    OBVIOUS
  <1> HIDE DEF Do, Test
  <1>2. \A n \in 1..4 : n = 1 \/ n = 2 \/ n = 3 \/ n = 4
    OBVIOUS
  <1>3. /\ Rest(k, 4) # <<>> /\ Tail(Rest(k, 4)) = Rest(k, 3)
        /\ Rest(k, 3) # <<>> /\ Tail(Rest(k, 3)) = Rest(k, 2)
        /\ Rest(k, 2) # <<>> /\ Tail(Rest(k, 2)) = Rest(k, 1)
        /\ Rest(k, 1) # <<>> /\ Tail(Rest(k, 1)) = Rest(k, 0)
    BY <1>1 DEF Rest
  <1>4. \A n \in 1..4 : Rest(k, n) # <<>> /\ Tail(Rest(k, n)) = Rest(k, n - 1)
    BY <1>2, <1>3
  <1>5. \A n \in 0..4 : Len(Rest(k, n)) = n
    BY DEF Rest
  <1>6. /\ Head(Rest(k, 4)) = Test("skip", k, "deleted", <<>>, <<>>)
        /\ Head(Rest(k, 3)) = Do("DEL", k)
        /\ Head(Rest(k, 2)) = Do("ack", k)
        /\ Head(Rest(k, 1)) = Do("delete", k)
        /\ Rest(k, 0) = <<>>
    BY <1>1 DEF Rest
  <1> QED BY <1>4, <1>5, <1>6

LEMMA RestIsRemoveScript == ASSUME NEW k \in Keys PROVE RemoveScript(k) = Rest(k, 4)
  <1> DEFINE r == RemoveScript(k)
  <1>1. /\ r \in Seq(Leaves("gazer")) /\ Len(r) = 4
        /\ r[1] = Test("skip", k, "deleted", <<>>, <<>>)
        /\ r[2] = Do("DEL", k) /\ r[3] = Do("ack", k) /\ r[4] = Do("delete", k)
    BY RemoveScriptSteps
  <1> HIDE DEF r, Do, Test
  <1>2. r = <<r[1], r[2], r[3], r[4]>>
    BY <1>1
  <1> QED BY <1>1, <1>2 DEF r, Rest

LEMMA BuildRestSteps ==
  ASSUME NEW b, NEW status \in BOOLEAN
  PROVE  /\ BuildRest(b, status, 3) # <<>> /\ BuildRest(b, status, 2) # <<>>
         /\ BuildRest(b, status, 1) # <<>>
         /\ Head(BuildRest(b, status, 3)) = LogBuild(b, status)
         /\ Head(BuildRest(b, status, 2)) = Do("LOG", b)
         /\ Head(BuildRest(b, status, 1)) = Do(News(status), Package(b[1]))
         /\ Tail(BuildRest(b, status, 3)) = BuildRest(b, status, 2)
         /\ Tail(BuildRest(b, status, 2)) = BuildRest(b, status, 1)
         /\ Tail(BuildRest(b, status, 1)) = <<>>
         /\ <<LogBuild(b, status), Do("LOG", b)>> \o Rewrite(News(status), b)
              = BuildRest(b, status, 3)
  <1>1. ASSUME NEW x, NEW y, NEW z
        PROVE  /\ Tail(<<x, y, z>>) = <<y, z>> /\ Head(<<x, y, z>>) = x
               /\ Tail(<<y, z>>) = <<z>> /\ Head(<<y, z>>) = y
               /\ Tail(<<z>>) = <<>> /\ Head(<<z>>) = z
               /\ <<x, y, z>> # <<>> /\ <<y, z>> # <<>> /\ <<z>> # <<>>
    OBVIOUS
  <1>2. ASSUME NEW x, NEW y, NEW z
        PROVE  <<x, y>> \o <<z>> = <<x, y, z>>
    <2> DEFINE T == {x, y, z}
               s == <<x, y>>
               u == <<z>>
    <2>1. /\ s \in Seq(T) /\ Len(s) = 2 /\ s[1] = x /\ s[2] = y
          /\ u \in Seq(T) /\ Len(u) = 1 /\ u[1] = z
      OBVIOUS
    <2> HIDE DEF s, u, T
    <2>2. /\ s \o u \in Seq(T) /\ Len(s \o u) = Len(s) + Len(u)
          /\ \A i \in 1..Len(s) + Len(u) :
               (s \o u)[i] = IF i <= Len(s) THEN s[i] ELSE u[i - Len(s)]
      BY <2>1, ConcatProperties
    <2>3. /\ Len(s \o u) = 3
          /\ (s \o u)[1] = x /\ (s \o u)[2] = y /\ (s \o u)[3] = z
      BY <2>1, <2>2
    <2> DEFINE w == s \o u
    <2> HIDE DEF w
    <2>4. w \in Seq(T) /\ Len(w) = 3 /\ w[1] = x /\ w[2] = y /\ w[3] = z
      BY <2>2, <2>3 DEF w
    <2>5. w = <<x, y, z>>
      BY <2>4
    <2> QED BY <2>5 DEF s, u, w
  <1> HIDE DEF Do, LogBuild
  <1> QED BY <1>1, <1>2 DEF BuildRest, Rewrite

-----------------------------------------------------------------------------
(* The shape of what the tasks have to do, whatever the world.              *)

GazerShape ==
  /\ event = NoEvent => todo["gazer"] = <<>>
  /\ event.action = "remove" => \E n \in 0..4 : todo["gazer"] = Rest(event.key, n)
  /\ event.action \notin {"none", "remove"} => todo["gazer"] \in Seq(AboutAll(event.key[1]))

DriverShape ==
  \/ todo["driver"] = <<>>
  \/ \E b \in Builds, status \in BOOLEAN, n \in 1..3 : Building(b, status, n)

\* TheScribe works for TheSecretary or for a task that waits for it.
ServedShape ==
  ~Idle => \/ Client = Itself /\ Command \in Rewrites /\ Key[2] = NoVer
           \/ Client \in Clients /\ Command \in {"LOG", "DEL"}

\* The rows refer to each other.
RowsNest ==
  /\ db.files \subseteq db.vers
  /\ \A b \in db.vers : b[1] \in db.pkgs

Shape == GazerShape /\ DriverShape /\ ServedShape /\ RowsNest

LEMMA ClientFacts ==
  /\ {"gazer", "chase", "driver"} = Clients
  /\ "gazer" # "chase" /\ "gazer" # "driver" /\ "chase" # "driver"
  /\ Itself \notin Clients
  BY WebsiteAssumption, SecretaryAssumption

\* What a transaction does, in short.
LEMMA TransactEffect ==
  ASSUME TypeInv, NEW c \in Clients, Transact(c)
  PROVE  /\ todo[c] # <<>> /\ Current(c).do \notin Commands \cup OwnOps
         /\ \A d \in Clients : d # c => todo'[d] = todo[d]
         /\ \/ c = "chase" /\ UNCHANGED <<db, dead>>
               /\ todo'[c] = Error("failed to log build", Current(c).key)
               /\ Current(c).do = "logged"
            \/ UNCHANGED db /\ todo'[c] = <<>> /\ dead' = dead \cup {c}
            \/ /\ ~Refused(Current(c)) /\ db' = Executed(Current(c)) /\ UNCHANGED dead
               /\ todo'[c] = Following(Current(c)) \o Tail(todo[c])
         /\ UNCHANGED <<webVars, acked, gazerVars, driverVars, importing, asker, history, spent>>
  <1>1. DOMAIN todo = Clients
    BY DEF TypeInv, ScriptsOK
  <1>2. /\ \A x : Then(c, x) => todo'[c] = x /\ \A d \in Clients : d # c => todo'[d] = todo[d]
        /\ \E x : Then(c, x)
    <2>1. \E x : Then(c, x)
      BY DEF Transact
    <2> QED BY <1>1, <2>1, ThenTodo
  <1> QED BY <1>2 DEF Transact, Transacts, Caught

LEMMA TailInSeq ==
  ASSUME NEW S, NEW s \in Seq(S), s # <<>>
  PROVE  Head(s) \in S /\ Tail(s) \in Seq(S) /\ Head(s) = s[1]
  OBVIOUS

LEMMA DoFields ==
  ASSUME NEW do, NEW k, NEW arg
  PROVE  /\ Do(do, k).do = do /\ Do(do, k).key = k /\ Do(do, k).yes = <<>>
         /\ Test(do, k, arg, <<>>, <<>>).do = do /\ Test(do, k, arg, <<>>, <<>>).key = k
         /\ Test(do, k, arg, <<>>, <<>>).arg = arg /\ Test(do, k, arg, <<>>, <<>>).yes = <<>>
  BY DEF Do, Test

LEMMA EmptyConcat == ASSUME NEW S, NEW s \in Seq(S) PROVE <<>> \o s = s
  OBVIOUS

\* A statement that is not a question is followed by the next one.
LEMMA PlainFollowing ==
  ASSUME NEW s, s.do \notin {"addpkg", "addver", "exists", "binary", "releases"}
  PROVE  Following(s) = s.yes
  BY DEF Following, Answer

LEMMA GazerShapeKept ==
  ASSUME GazerShape, UNCHANGED event, todo'["gazer"] = todo["gazer"]
  PROVE  GazerShape'
  BY DEF GazerShape

LEMMA GazerShapeTail ==
  ASSUME TypeInv, GazerShape, UNCHANGED event, todo["gazer"] # <<>>,
         todo'["gazer"] = Tail(todo["gazer"])
  PROVE  GazerShape'
  <1>1. CASE event.action = "remove"
    <2>1. PICK n \in 0..4 : todo["gazer"] = Rest(event.key, n)
      BY <1>1 DEF GazerShape
    <2>2. n \in 1..4
      BY <2>1, RestSteps
    <2>3. Tail(todo["gazer"]) = Rest(event.key, n - 1)
      BY <2>1, <2>2, RestSteps
    <2>5. n - 1 \in 0..4
      BY <2>2
    <2>4. event # NoEvent
      BY <1>1 DEF NoEvent
    <2> QED BY <1>1, <2>3, <2>4, <2>5 DEF GazerShape
  <1>2. CASE event.action \notin {"none", "remove"}
    <2>1. todo["gazer"] \in Seq(AboutAll(event.key[1]))
      BY <1>2 DEF GazerShape
    <2>2. Tail(todo["gazer"]) \in Seq(AboutAll(event.key[1]))
      BY <2>1, TailInSeq
    <2>3. event # NoEvent
      BY <1>2 DEF NoEvent
    <2> QED BY <1>2, <2>2, <2>3 DEF GazerShape
  <1>3. CASE event.action = "none"
    <2>1. event = NoEvent
      BY <1>3, EventKeys DEF TypeInv, TasksOK
    <2> QED BY <2>1 DEF GazerShape
  <1> QED BY <1>1, <1>2, <1>3

LEMMA GazerShapeEmpty ==
  ASSUME TypeInv, UNCHANGED event, todo'["gazer"] = <<>>
  PROVE  GazerShape'
  <1>1. todo'["gazer"] = Rest(event.key, 0) /\ 0 \in 0..4
    BY RestSteps
  <1> QED BY <1>1, EmptyInSeq DEF GazerShape

\* At which statement CloudGazer is.
LEMMA RemovalCurrent ==
  ASSUME event.action = "remove", todo["gazer"] # <<>>, GazerShape
  PROVE  /\ Current("gazer").do \in {"skip", "DEL", "ack", "delete"}
         /\ Current("gazer").key = event.key
         /\ Current("gazer").yes = <<>>
  <1>1. PICK n \in 0..4 : todo["gazer"] = Rest(event.key, n)
    BY DEF GazerShape
  <1>2. n \in 1..4
    BY <1>1, RestSteps
  <1>3. n = 1 \/ n = 2 \/ n = 3 \/ n = 4
    BY <1>2
  <1>4. Current("gazer") \in {Test("skip", event.key, "deleted", <<>>, <<>>),
                              Do("DEL", event.key), Do("ack", event.key), Do("delete", event.key)}
    BY <1>1, <1>3, RestSteps DEF Current
  <1> DEFINE k == event.key
             R == {Test("skip", k, "deleted", <<>>, <<>>), Do("DEL", k), Do("ack", k), Do("delete", k)}
  <1>5. \A s \in R : s.do \in {"skip", "DEL", "ack", "delete"} /\ s.key = k /\ s.yes = <<>>
    <2>1. ASSUME NEW s, s = Test("skip", k, "deleted", <<>>, <<>>)
          PROVE  s.do = "skip" /\ s.key = k /\ s.yes = <<>>
      BY <2>1, DoFields
    <2>2. ASSUME NEW do, NEW s, s = Do(do, k) PROVE s.do = do /\ s.key = k /\ s.yes = <<>>
      BY <2>2, DoFields
    <2> QED BY <2>1, <2>2
  <1> QED BY <1>4, <1>5

LEMMA GazerShapeTransact ==
  ASSUME TypeInv, Shape, NEW c \in Clients, Transact(c)
  PROVE  GazerShape'
  <1> USE DEF Shape
  <1>1. UNCHANGED event /\ (c # "gazer" => todo'["gazer"] = todo["gazer"])
    BY TransactEffect, ClientFacts DEF gazerVars
  <1>2. CASE c # "gazer"
    BY <1>1, <1>2, GazerShapeKept
  <1>3. CASE c = "gazer" /\ todo'["gazer"] = <<>>
    BY <1>1, <1>3, GazerShapeEmpty
  <1>4. CASE c = "gazer" /\ todo'["gazer"] # <<>>
    <2> DEFINE s == Current("gazer")
    <2>1. todo["gazer"] # <<>> /\ todo'["gazer"] = Following(s) \o Tail(todo["gazer"])
      BY <1>4, TransactEffect, ClientFacts
    <2>2. Tail(todo["gazer"]) \in Seq(Statements("gazer"))
      BY <1>4, <2>1, CurrentType DEF TypeInv, Doer
    <2>3. CASE event.action = "remove"
      <3>1. Following(s) = <<>>
        BY <2>1, <2>3, RemovalCurrent, PlainFollowing
      <3> QED BY <1>1, <2>1, <2>2, <3>1, EmptyConcat, GazerShapeTail
    <2>4. CASE event.action \notin {"none", "remove"}
      <3> DEFINE S == AboutAll(event.key[1])
      <3>1. todo["gazer"] \in Seq(S)
        BY <2>4 DEF GazerShape
      <3>2. s \in S /\ Tail(todo["gazer"]) \in Seq(S)
        BY <2>1, <3>1, TailInSeq DEF Current
      <3>3. s.yes \in Seq(AboutTests(event.key[1])) /\ s.no \in Seq(AboutTests(event.key[1]))
            /\ s.do \in EventCalls
        BY <3>2 DEF AboutAll, About, Nested
      <3>4. s.yes \in Seq(S) /\ s.no \in Seq(S)
        BY <3>3, AboutNesting
      <3>5. s.do # "releases"
        BY <3>3 DEF EventCalls, Rewrites
      <3>6. Following(s) \in Seq(S)
        BY <3>4, <3>5 DEF Following
      <3>7. todo'["gazer"] \in Seq(S)
        BY <2>1, <3>2, <3>6, ConcatInSeq
      <3>8. event # NoEvent
        BY <2>4 DEF NoEvent
      <3> QED BY <1>1, <2>4, <3>7, <3>8 DEF GazerShape
    <2>5. CASE event.action = "none"
      <3>1. event = NoEvent
        BY <2>5, EventKeys DEF TypeInv, TasksOK
      <3> QED BY <2>1, <3>1 DEF GazerShape
    <2> QED BY <2>3, <2>4, <2>5
  <1> QED BY <1>2, <1>3, <1>4

LEMMA GazerShapeStep == TypeInv /\ Shape /\ [Next]_<<vars, world>> => GazerShape'
  <1> SUFFICES ASSUME TypeInv, Shape, [Next]_<<vars, world>> PROVE GazerShape'
    OBVIOUS
  <1> USE DEF Shape
  <1>0. DOMAIN todo = Clients /\ "gazer" \in Clients /\ "chase" \in Clients /\ "driver" \in Clients
    BY ClientFacts DEF TypeInv, ScriptsOK
  <1>1. \A c \in Clients : \A x : c # "gazer" /\ Then(c, x) => todo'["gazer"] = todo["gazer"]
    BY <1>0, ThenTodo
  <1>2. \A x : Then("gazer", x) => todo'["gazer"] = x
    BY <1>0, ThenTodo
  <1>3. ASSUME NEW c \in Clients, Ask(c) PROVE GazerShape'
    <2>1. /\ UNCHANGED event /\ todo[c] # <<>>
          /\ UNCHANGED todo \/ Then(c, Tail(todo[c]))
      BY <1>3 DEF Ask, Asks, gazerVars
    <2> QED BY <1>1, <1>2, <2>1, GazerShapeKept, GazerShapeTail
  <1>4. ASSUME NEW c \in Clients, Exclude(c) PROVE GazerShape'
    BY <1>4, GazerShapeKept DEF Exclude, gazerVars
  <1>5. ASSUME NEW c \in Clients, Acked(c) PROVE GazerShape'
    <2>1. /\ UNCHANGED event /\ todo[c] # <<>> /\ Then(c, Tail(todo[c]))
      BY <1>5 DEF Acked, gazerVars
    <2> QED BY <1>1, <1>2, <2>1, GazerShapeKept, GazerShapeTail
  <1>6. CASE Due
    BY <1>6, GazerShapeKept DEF Due, gazerVars
  <1>7. CASE Write
    <2>1. UNCHANGED event /\ ~Idle /\ (UNCHANGED todo \/ Then(Client, Tail(todo[Client])))
          /\ (~UNCHANGED todo => Client # Itself)
      BY <1>7 DEF Write, HandleIndex, gazerVars, Client
    <2>2. CASE UNCHANGED todo
      BY <2>1, <2>2, GazerShapeKept
    <2>3. CASE ~UNCHANGED todo
      <3>1. Client \in Clients /\ todo[Client] # <<>>
        BY <2>1, <2>3, ServedFacts DEF TypeInv, ServingOK
      <3>2. PICK c \in Clients : c = Client
        BY <3>1
      <3>3. Then(c, Tail(todo[c])) /\ todo[c] # <<>>
        BY <2>1, <2>3, <3>1, <3>2
      <3> QED BY <1>1, <1>2, <2>1, <3>3, GazerShapeKept, GazerShapeTail
    <2> QED BY <2>2, <2>3
  <1>8. CASE SetSerial
    <2>1. todo["gazer"] = <<>> /\ event' = NoEvent /\ UNCHANGED todo
      BY <1>8 DEF SetSerial, Free
    <2> QED BY <2>1 DEF GazerShape, NoEvent
  <1>9. CASE Reply
    BY <1>0, <1>1, <1>9, ClientFacts, GazerShapeKept DEF Reply, gazerVars
  <1>10. ASSUME NEW b \in Builds, Built(b) \/ FailedBuild(b) \/ SentBuild(b) \/ SentImport(b)
         PROVE  GazerShape'
    <2>1. UNCHANGED event /\ (UNCHANGED todo \/ \E x : Then("driver", x) \/ Then("chase", x))
      BY <1>10 DEF Built, FailedBuild, SentBuild, SentImport, gazerVars
    <2> QED BY <1>0, <1>1, <2>1, ClientFacts, GazerShapeKept
  <1>11. ASSUME NEW e \in PyPIEvents, e # NoEvent, todo'["gazer"] = <<>> \/ e.action # "remove"
                  \/ todo'["gazer"] = RemoveScript(e.key), event' = e,
                e.action # "remove" => todo'["gazer"] \in Seq(AboutAll(e.key[1]))
         PROVE  GazerShape'
    <2>1. e.key \in Keys
      BY EventKeys
    <2>2. e.action = "remove" => \E n \in 0..4 : todo'["gazer"] = Rest(e.key, n)
      BY <1>11, <2>1, RestSteps, RestIsRemoveScript
    <2> QED BY <1>11, <2>2 DEF GazerShape
  <1>12. \A e \in PyPIEvents : e # NoEvent
    BY EventKeys DEF NoEvent
  <1>13. ASSUME NEW e \in PyPIEvents, ReadPyPI(e) PROVE GazerShape'
    <2>1. event' = e /\ todo'["gazer"] = EventScript(e, packages)
      BY <1>2, <1>13 DEF ReadPyPI
    <2> QED BY <1>11, <1>12, <2>1, EventScriptAbout DEF EventScript
  <1>14. ASSUME NEW r \in ChaseRequests, HandleImport(r) PROVE GazerShape'
    BY <1>0, <1>1, <1>14, ClientFacts, GazerShapeKept DEF HandleImport, gazerVars
  <1>15. CASE Restart \/ Crash
    <2>1. /\ UNCHANGED event
          /\ todo' = [c \in Clients |->
                IF c = "gazer" /\ event # NoEvent
                THEN EventScript(event, db.pkgs) ELSE <<>>]
      BY <1>15 DEF Restart, Crash, Start
    <2>2. CASE event = NoEvent
      BY <1>0, <2>1, <2>2, GazerShapeEmpty
    <2>3. CASE event # NoEvent
      <3>1. event \in PyPIEvents
        BY <2>3 DEF TypeInv, TasksOK
      <3>2. PICK e \in PyPIEvents : e = event
        BY <3>1
      <3>3. todo'["gazer"] = EventScript(e, db.pkgs) /\ event' = e
        BY <1>0, <2>1, <2>3, <3>2
      <3> QED BY <1>11, <1>12, <3>3, EventScriptAbout DEF EventScript
    <2> QED BY <2>2, <2>3
  <1>16. CASE UNCHANGED <<vars, world>>
    BY <1>16, GazerShapeKept DEF vars, gazerVars
  <1> QED BY <1>3, <1>4, <1>5, <1>6, <1>7, <1>8, <1>9, <1>10, <1>13, <1>14, <1>15, <1>16,
             GazerShapeTransact DEF Next, Step, Over

\* The rows after a transaction.
LEMMA RowChanges ==
  ASSUME RowsOK, NEW s, s.key \in Keys, db' = Executed(s)
  PROVE  /\ s.do = "addpkg" => db'.pkgs = db.pkgs \cup {s.key[1]} \/ (db' = db /\ Known(s.key))
         /\ s.do # "addpkg" /\ s.do # "delete" => db'.pkgs = db.pkgs
         /\ s.do = "delete" => db'.pkgs = IF s.key[2] = NoVer THEN db.pkgs \ {s.key[1]} ELSE db.pkgs
         /\ s.do = "addver" => db'.vers = db.vers \cup {s.key} \/ db' = db
         /\ s.do # "addver" /\ s.do # "delete" => db'.vers = db.vers
         /\ s.do = "delete" => db'.vers = db.vers \ Covered(s.key) /\ db'.files = db.files \ Covered(s.key)
         /\ s.do = "logged" => db'.files = db.files \cup {s.key}
         /\ s.do = "delbuilds" => db'.files = db.files \ {s.key}
         /\ s.do \notin {"logged", "delete", "delbuilds"} => db'.files = db.files
  <1>1. db \in [pkgs : SUBSET Pkgs, vers : SUBSET Builds, files : SUBSET Builds,
                fails : SUBSET Builds, yanked : SUBSET Builds, skip : [Keys -> SkipReasons]]
    BY DEF RowsOK, CatalogueTypeOK
  <1> HIDE DEF Keys, Builds
  <1>2. CASE s.do = "addpkg"
    <2>1. db' = PackageAdded(s.key, s.arg)
      BY <1>2 DEF Executed
    <2> QED BY <1>1, <1>2, <2>1 DEF PackageAdded
  <1>3. CASE s.do = "addver"
    <2>1. db' = VersionAdded(s.key, s.arg)
      BY <1>3 DEF Executed
    <2> QED BY <1>1, <1>3, <2>1 DEF VersionAdded
  <1>4. CASE s.do = "skip"
    <2>1. db' = Skipped(s.key, s.arg)
      BY <1>4 DEF Executed
    <2> QED BY <1>1, <1>4, <2>1 DEF Skipped
  <1>5. CASE s.do = "yank"
    <2>1. db' = Yanked(s.key)
      BY <1>5 DEF Executed
    <2> QED BY <1>1, <1>5, <2>1 DEF Yanked
  <1>6. CASE s.do = "unyank"
    <2>1. db' = Unyanked(s.key)
      BY <1>6 DEF Executed
    <2> QED BY <1>1, <1>6, <2>1 DEF Unyanked
  <1>7. CASE s.do = "delete"
    <2>1. db' = Without(s.key)
      BY <1>7 DEF Executed
    <2> DEFINE k == s.key
               skips == [o \in Keys |-> IF o = k \/ o \in Covered(k) THEN "" ELSE db.skip[o]]
               rest == IF k[2] = NoVer THEN db.pkgs \ {k[1]} ELSE db.pkgs
               d == [db EXCEPT !.pkgs = rest,
                       !.vers = @ \ Covered(k), !.files = @ \ Covered(k),
                       !.fails = @ \ Covered(k), !.yanked = @ \ Covered(k), !.skip = skips]
    <2>2. db' = d
      BY <2>1 DEF Without
    <2> HIDE DEF skips, rest
    <2>3. d.pkgs = rest /\ d.vers = db.vers \ Covered(k) /\ d.files = db.files \ Covered(k)
      BY <1>1
    <2> QED BY <1>7, <2>2, <2>3 DEF rest
  <1>8. CASE s.do = "delbuilds"
    <2>1. db' = BuildsDeleted(s.key)
      BY <1>8 DEF Executed
    <2> QED BY <1>1, <1>8, <2>1 DEF BuildsDeleted
  <1>9. CASE s.do = "logged"
    <2>1. db' = SuccessLogged(s.key)
      BY <1>9 DEF Executed
    <2> QED BY <1>1, <1>9, <2>1 DEF SuccessLogged
  <1>10. CASE s.do = "failed"
    <2>1. db' = FailureLogged(s.key)
      BY <1>10 DEF Executed
    <2> QED BY <1>1, <1>10, <2>1 DEF FailureLogged
  <1>11. CASE s.do \notin {"addpkg", "addver", "skip", "yank", "unyank", "delete", "delbuilds",
                           "logged", "failed"}
    <2>1. db' = db
      BY <1>11 DEF Executed
    <2> QED BY <1>11, <2>1
  <1> QED BY <1>2, <1>3, <1>4, <1>5, <1>6, <1>7, <1>8, <1>9, <1>10, <1>11

\* Only a transaction changes the rows.
LEMMA RowsStay ==
  ASSUME [Next]_<<vars, world>>, \A c \in Clients : ~Transact(c)
  PROVE  UNCHANGED db
  <1>1. CASE UNCHANGED <<vars, world>>
    BY <1>1 DEF vars
  <1>2. CASE Step
    BY <1>2 DEF Step, Ask, Exclude, Acked, Due, Write, SetSerial, Reply, Built, FailedBuild, SentBuild,
       SentImport, ReadPyPI, HandleImport, Restart, Crash, Start, Over, vars
  <1> QED BY <1>1, <1>2 DEF Next

LEMMA RowsNestStep == TypeInv /\ Shape /\ [Next]_<<vars, world>> => RowsNest'
  <1> SUFFICES ASSUME TypeInv, Shape, [Next]_<<vars, world>> PROVE RowsNest'
    OBVIOUS
  <1>1. CASE UNCHANGED db
    BY <1>1 DEF Shape, RowsNest
  <1>2. ASSUME NEW c \in Clients, Transact(c), ~UNCHANGED db PROVE RowsNest'
    <2> DEFINE s == Current(c)
    <2>1. ~Refused(s) /\ db' = Executed(s) /\ todo[c] # <<>>
      BY <1>2, TransactEffect
    <2>2. s.key \in Keys /\ RowsOK
      BY <2>1, CurrentType DEF TypeInv
    <2> HIDE DEF s
    <2>3. RowsNest
      BY DEF Shape
    <2>4. CASE s.do = "delete"
      <3>1. \A b \in db.vers : s.key[2] = NoVer /\ b[1] = s.key[1] => b \in Covered(s.key)
        BY <2>2, RowFacts DEF Covered, Covers
      <3> QED BY <2>1, <2>2, <2>3, <2>4, <3>1, RowChanges, ZenonT(60) DEF RowsNest
    <2>5. CASE s.do = "addver"
      <3>1. s.key[1] \in db.pkgs
        BY <2>1, <2>5 DEF Refused
      <3>2. /\ db'.vers = db.vers \cup {s.key} \/ db' = db
            /\ db'.files = db.files /\ db'.pkgs = db.pkgs
        BY <2>1, <2>2, <2>5, RowChanges
      <3>3. db'.vers \subseteq db.vers \cup {s.key} /\ db.vers \subseteq db'.vers
        BY <3>2
      <3> QED BY <2>3, <3>1, <3>2, <3>3 DEF RowsNest
    <2>6. CASE s.do = "logged"
      <3>1. s.key \in db.vers
        BY <2>1, <2>6 DEF Refused
      <3> QED BY <2>1, <2>2, <2>3, <2>6, <3>1, RowChanges DEF RowsNest
    <2>7. CASE s.do \notin {"delete", "addver", "logged"}
      <3>1. db'.vers = db.vers /\ db.pkgs \subseteq db'.pkgs /\ db'.files \subseteq db.files
        BY <2>1, <2>2, <2>7, RowChanges
      <3> QED BY <2>3, <3>1 DEF RowsNest
    <2> QED BY <2>4, <2>5, <2>6, <2>7
  <1> QED BY <1>1, <1>2, RowsStay

\* SlaveDriver logs a build, writes the log, and announces it.
LEMMA BuildingCurrent ==
  ASSUME NEW b, NEW status \in BOOLEAN
  PROVE  /\ Building(b, status, 3) => /\ Current("driver") = LogBuild(b, status)
                                      /\ Current("driver").do = IF status THEN "logged" ELSE "failed"
         /\ Building(b, status, 2) => Current("driver") = Do("LOG", b) /\ Current("driver").do = "LOG"
         /\ Building(b, status, 1) => /\ Current("driver") = Do(News(status), Package(b[1]))
                                      /\ Current("driver").do = News(status)
         /\ \A n \in 1..3 : Building(b, status, n) => todo["driver"] # <<>> /\ Current("driver").key[1] = b[1]
  <1>1. ASSUME NEW do, NEW k PROVE Do(do, k).do = do /\ Do(do, k).key = k
    BY DoFields
  <1>2. Package(b[1])[1] = b[1]
    BY DEF Package
  <1>3. \A n \in 1..3 : n = 1 \/ n = 2 \/ n = 3
    OBVIOUS
  <1> HIDE DEF Do
  <1>4. /\ LogBuild(b, status).do = IF status THEN "logged" ELSE "failed"
        /\ LogBuild(b, status).key = b
    BY <1>1 DEF LogBuild
  <1>5. ASSUME Building(b, status, 3)
        PROVE  todo["driver"] # <<>> /\ Current("driver") = LogBuild(b, status)
    BY <1>5, BuildRestSteps DEF Building, Current
  <1>6. ASSUME Building(b, status, 2)
        PROVE  todo["driver"] # <<>> /\ Current("driver") = Do("LOG", b)
    BY <1>6, BuildRestSteps DEF Building, Current
  <1>7. ASSUME Building(b, status, 1)
        PROVE  todo["driver"] # <<>> /\ Current("driver") = Do(News(status), Package(b[1]))
    BY <1>7, BuildRestSteps DEF Building, Current
  <1>8. \A n \in 1..3 : Building(b, status, n) => todo["driver"] # <<>> /\ Current("driver").key[1] = b[1]
    BY <1>1, <1>2, <1>3, <1>4, <1>5, <1>6, <1>7
  <1> QED BY <1>1, <1>4, <1>5, <1>6, <1>7, <1>8

LEMMA DriverShapeKept ==
  ASSUME DriverShape, todo'["driver"] = todo["driver"]
  PROVE  DriverShape'
  BY DEF DriverShape, Building

LEMMA DriverShapeTail ==
  ASSUME DriverShape, todo["driver"] # <<>>, todo'["driver"] = Tail(todo["driver"])
  PROVE  DriverShape'
  <1>1. PICK b \in Builds, status \in BOOLEAN, n \in 1..3 : todo["driver"] = BuildRest(b, status, n)
    BY DEF DriverShape, Building
  <1>2. todo'["driver"] \in {BuildRest(b, status, 2), BuildRest(b, status, 1), <<>>}
    <2>1. n = 1 \/ n = 2 \/ n = 3
      OBVIOUS
    <2> QED BY <1>1, <2>1, BuildRestSteps, ZenonT(60)
  <1> QED BY <1>2 DEF DriverShape, Building

LEMMA DriverShapeStep == TypeInv /\ Shape /\ [Next]_<<vars, world>> => DriverShape'
  <1> SUFFICES ASSUME TypeInv, Shape, [Next]_<<vars, world>> PROVE DriverShape'
    OBVIOUS
  <1> USE DEF Shape
  <1>0. DOMAIN todo = Clients /\ "gazer" \in Clients /\ "chase" \in Clients /\ "driver" \in Clients
    BY ClientFacts DEF TypeInv, ScriptsOK
  <1>1. \A c \in Clients : \A x : c # "driver" /\ Then(c, x) => todo'["driver"] = todo["driver"]
    BY <1>0, ThenTodo
  <1>2. \A x : Then("driver", x) => todo'["driver"] = x
    BY <1>0, ThenTodo
  <1>3. \A c \in Clients : todo[c] # <<>> /\ Then(c, Tail(todo[c])) => DriverShape'
    BY <1>1, <1>2, DriverShapeKept, DriverShapeTail
  <1>4. ASSUME NEW c \in Clients, Transact(c) PROVE DriverShape'
    <2>1. CASE c # "driver"
      BY <1>0, <1>4, <2>1, TransactEffect, DriverShapeKept
    <2>2. CASE todo'["driver"] = <<>>
      BY <2>2 DEF DriverShape
    <2>3. CASE c = "driver" /\ todo'["driver"] # <<>>
      <3>1. /\ todo["driver"] # <<>> /\ Current("driver").do \notin Commands
            /\ todo'["driver"] = Following(Current("driver")) \o Tail(todo["driver"])
        BY <1>0, <1>4, <2>3, TransactEffect, ClientFacts
      <3>2. PICK b \in Builds, status \in BOOLEAN, n \in 1..3 : Building(b, status, n)
        BY <3>1 DEF DriverShape
      <3>3. n = 3
        BY <3>1, <3>2, BuildingCurrent DEF Commands, Rewrites, News
      <3>4. Current("driver") = LogBuild(b, status)
        BY <3>2, <3>3, BuildingCurrent
      <3>5. Following(Current("driver")) = <<>>
        BY <3>4, PlainFollowing, DoFields DEF LogBuild
      <3>6. Tail(todo["driver"]) \in Seq(Statements("driver"))
        BY <1>0, <3>1, CurrentType DEF TypeInv, Doer
      <3> QED BY <3>1, <3>5, <3>6, EmptyConcat, DriverShapeTail
    <2> QED BY <2>1, <2>2, <2>3
  <1>5. ASSUME NEW c \in Clients, Ask(c) \/ Exclude(c) \/ Acked(c) PROVE DriverShape'
    <2>1. UNCHANGED todo \/ (todo[c] # <<>> /\ Then(c, Tail(todo[c])))
      BY <1>5 DEF Ask, Asks, Exclude, Acked
    <2> QED BY <1>3, <2>1, DriverShapeKept
  <1>6. CASE Due \/ SetSerial
    BY <1>6, DriverShapeKept DEF Due, SetSerial
  <1>7. CASE Write
    <2>1. ~Idle /\ (UNCHANGED todo \/ (Client # Itself /\ Then(Client, Tail(todo[Client]))))
      BY <1>7 DEF Write, HandleIndex, Client
    <2>2. Client # Itself => Client \in Clients /\ todo[Client] # <<>>
      BY <2>1, ServedFacts DEF TypeInv, ServingOK
    <2> QED BY <1>3, <2>1, <2>2, DriverShapeKept
  <1>8. CASE Reply
    BY <1>0, <1>1, <1>8, ClientFacts, DriverShapeKept DEF Reply
  <1>9. ASSUME NEW b \in Builds, Built(b) \/ SentImport(b) PROVE DriverShape'
    BY <1>0, <1>1, <1>9, ClientFacts, DriverShapeKept DEF Built, SentImport
  <1>10. ASSUME NEW b \in Builds, FailedBuild(b) \/ SentBuild(b) PROVE DriverShape'
    <2>1. PICK status \in BOOLEAN :
            todo'["driver"] = <<LogBuild(b, status), Do("LOG", b)>> \o Rewrite(News(status), b)
      BY <1>2, <1>10 DEF FailedBuild, SentBuild, News
    <2>2. todo'["driver"] = BuildRest(b, status, 3)
      BY <2>1, BuildRestSteps
    <2> QED BY <2>2 DEF DriverShape, Building
  <1>11. ASSUME NEW e \in PyPIEvents, ReadPyPI(e) PROVE DriverShape'
    BY <1>0, <1>1, <1>11, ClientFacts, DriverShapeKept DEF ReadPyPI
  <1>12. ASSUME NEW r \in ChaseRequests, HandleImport(r) PROVE DriverShape'
    BY <1>0, <1>1, <1>12, ClientFacts, DriverShapeKept DEF HandleImport
  <1>13. CASE Restart \/ Crash
    <2>1. todo'["driver"] = <<>>
      BY <1>0, <1>13, ClientFacts DEF Restart, Crash, Start
    <2> QED BY <2>1 DEF DriverShape
  <1>14. CASE UNCHANGED <<vars, world>>
    BY <1>14, DriverShapeKept DEF vars
  <1> QED BY <1>4, <1>5, <1>6, <1>7, <1>8, <1>9, <1>10, <1>11, <1>12, <1>13, <1>14
          DEF Next, Step, Over

LEMMA ServedShapeStep == TypeInv /\ Shape /\ [Next]_<<vars, world>> => ServedShape'
  <1> SUFFICES ASSUME TypeInv, Shape, [Next]_<<vars, world>> PROVE ServedShape'
    OBVIOUS
  <1> USE DEF Shape
  <1>1. CASE UNCHANGED serving \/ serving' = <<>>
    BY <1>1 DEF ServedShape, Idle, Client, Command, Key
  <1>2. ASSUME NEW c \in Clients, Ask(c) PROVE ServedShape'
    <2>1. /\ Current(c).do \in Commands
          /\ UNCHANGED serving \/ serving' = <<c, Current(c).do, Current(c).key>>
          /\ Current(c).do \in Rewrites => UNCHANGED serving
      BY <1>2 DEF Ask, Asks, HandleInput
    <2>2. CASE Current(c).do \notin Rewrites /\ serving' = <<c, Current(c).do, Current(c).key>>
      BY <2>1, <2>2 DEF ServedShape, Idle, Client, Command, Key, Commands
    <2> QED BY <1>1, <2>1, <2>2
  <1>3. CASE Due
    <2>1. PICK p : commands[p] \in Rewrites /\ serving' = <<Itself, commands[p], Package(p)>>
      BY <1>3, HandleOutputType DEF Due, TypeInv
    <2> QED BY <2>1 DEF ServedShape, Idle, Client, Command, Key, Package
  <1>4. CASE Write
    BY <1>1, <1>4, HandleIndexType DEF Write, TypeInv
  <1>5. CASE \E c \in Clients : Transact(c) \/ Exclude(c) \/ Acked(c)
    BY <1>1, <1>5 DEF Transact, Exclude, Acked, webVars, secretaryVars
  <1>6. CASE SetSerial \/ Reply
    BY <1>1, <1>6 DEF SetSerial, Reply, webVars, secretaryVars
  <1>7. CASE \E b \in Builds : Built(b) \/ FailedBuild(b) \/ SentBuild(b) \/ SentImport(b)
    BY <1>1, <1>7 DEF Built, FailedBuild, SentBuild, SentImport, webVars, secretaryVars
  <1>8. CASE (\E e \in PyPIEvents : ReadPyPI(e)) \/ (\E r \in ChaseRequests : HandleImport(r))
    BY <1>1, <1>8 DEF ReadPyPI, HandleImport, webVars, secretaryVars
  <1>9. CASE Restart \/ Crash
    BY <1>1, <1>9 DEF Restart, Crash, Start, Load
  <1>10. CASE UNCHANGED <<vars, world>>
    BY <1>1, <1>10 DEF vars, webVars, secretaryVars
  <1> QED BY <1>2, <1>3, <1>4, <1>5, <1>6, <1>7, <1>8, <1>9, <1>10 DEF Next, Step, Over

LEMMA ShapeInit == Init => Shape
  <1> SUFFICES ASSUME Init PROVE Shape
    OBVIOUS
  <1>1. /\ event = NoEvent /\ serving = <<>> /\ db.files = {} /\ db.vers = {}
        /\ todo["gazer"] = <<>> /\ todo["driver"] = <<>>
    BY ClientFacts DEF Init, SecretaryInit, CatalogueInit
  <1> QED BY <1>1 DEF Shape, GazerShape, DriverShape, ServedShape, RowsNest, NoEvent, Idle

LEMMA ShapeStep == TypeInv /\ Shape /\ [Next]_<<vars, world>> => Shape'
  BY GazerShapeStep, DriverShapeStep, ServedShapeStep, RowsNestStep DEF Shape

-----------------------------------------------------------------------------
(* A removal goes on one statement at a time.                               *)

LEMMA AtFacts ==
  ASSUME NEW k, NEW n \in 0..4, At(k, n)
  PROVE  /\ event.action = "remove" /\ event.key = k
         /\ n # 0 => todo["gazer"] # <<>> /\ Tail(todo["gazer"]) = Rest(k, n - 1)
         /\ n = 4 => Current("gazer") = Test("skip", k, "deleted", <<>>, <<>>)
         /\ n = 3 => Current("gazer") = Do("DEL", k)
         /\ n = 2 => Current("gazer") = Do("ack", k)
         /\ n = 1 => Current("gazer") = Do("delete", k)
         /\ \A j : \A m \in 0..4 : At(j, m) => j = k /\ m = n
  <1>1. event.action = "remove" /\ event.key = k /\ todo["gazer"] = Rest(k, n)
    BY DEF At
  <1>2. n # 0 => n \in 1..4
    OBVIOUS
  <1>3. ASSUME NEW j, NEW m \in 0..4, At(j, m) PROVE j = k /\ m = n
    <2>1. event.key = j /\ todo["gazer"] = Rest(j, m)
      BY <1>3 DEF At
    <2>2. j = k
      BY <1>1, <2>1
    <2>3. Len(Rest(k, m)) = m /\ Len(Rest(k, n)) = n
      BY RestSteps
    <2> QED BY <1>1, <2>1, <2>2, <2>3
  <1> QED BY <1>1, <1>2, <1>3, RestSteps DEF Current

\* Where CloudGazer is when its next statement belongs to a removal.
LEMMA RemovalPhase ==
  ASSUME TypeInv, GazerShape, todo["gazer"] # <<>>
  PROVE  LET s == Current("gazer") IN
         /\ s.do = "DEL" => At(s.key, 3)
         /\ s.do = "ack" => At(s.key, 2)
         /\ s.do = "delete" => At(s.key, 1)
         /\ event.action = "remove" => \E n \in 1..4 : At(event.key, n)
         /\ event.action # "remove" =>
              /\ event.action \notin {"none", "remove"}
              /\ s.do \in EventCalls /\ s.key[1] = event.key[1]
              /\ s \in AboutAll(event.key[1])
  <1> DEFINE s == Current("gazer")
  <1>1. event # NoEvent /\ event \in PyPIEvents
    BY DEF GazerShape, TypeInv, TasksOK
  <1>2. event.action \in {"create", "source", "binary", "yank", "unyank", "remove"}
    BY <1>1, EventKeys
  <1>3. CASE event.action = "remove"
    <2>1. event = [action |-> "remove", key |-> event.key]
      BY <1>1, <1>3 DEF PyPIEvents
    <2>2. PICK n \in 0..4 : todo["gazer"] = Rest(event.key, n)
      BY <1>3 DEF GazerShape
    <2>3. n \in 1..4
      BY <2>2, RestSteps
    <2>4. At(event.key, n)
      BY <2>1, <2>2 DEF At
    <2>5. /\ n = 4 => s.do = "skip"
          /\ n = 3 => s.do = "DEL" /\ s.key = event.key
          /\ n = 2 => s.do = "ack" /\ s.key = event.key
          /\ n = 1 => s.do = "delete" /\ s.key = event.key
      <3>1. ASSUME NEW do PROVE Do(do, event.key).do = do /\ Do(do, event.key).key = event.key
        BY DoFields
      <3>2. Test("skip", event.key, "deleted", <<>>, <<>>).do = "skip"
        BY DoFields
      <3> QED BY <2>4, <3>1, <3>2, AtFacts
    <2>6. n = 1 \/ n = 2 \/ n = 3 \/ n = 4
      BY <2>3
    <2> QED BY <1>3, <2>3, <2>4, <2>5, <2>6
  <1>4. CASE event.action # "remove"
    <2>1. todo["gazer"] \in Seq(AboutAll(event.key[1])) /\ event.action \notin {"none", "remove"}
      BY <1>2, <1>4 DEF GazerShape
    <2>2. s \in AboutAll(event.key[1])
      BY <2>1, TailInSeq DEF Current
    <2>3. s.do \in EventCalls /\ s.key[1] = event.key[1]
      BY <2>2 DEF AboutAll, About
    <2> QED BY <1>4, <2>1, <2>2, <2>3 DEF EventCalls, Rewrites
  <1> QED BY <1>3, <1>4

LEMMA OrderlyCalls ==
  ASSUME TypeInv, Orderly, NEW c \in Clients, todo[c] # <<>>
  PROVE  /\ Current(c).do \in {"delete", "DEL", "ack"} => c = "gazer"
         /\ Current(c).do \notin {"releases", "delbuilds"}
         /\ Current(c).do = "logged" =>
              c = "driver" \/ (c = "chase" /\ asker = "piw-import" /\ "piw-import" \in world.requests)
  <1>1. Sound(Current(c), Doer(c))
    BY CurrentType DEF TypeInv
  <1>2. asker \in {""} \cup world.requests /\ world.requests \subseteq Tools
    BY WorldFacts DEF TypeInv, TasksOK
  <1>3. asker # "piw-remove"
    BY <1>2 DEF Orderly
  <1>4. asker \notin {"gazer", "driver"}
    BY <1>2 DEF Tools
  <1> QED BY <1>1, <1>2, <1>3, <1>4, ClientFacts DEF Sound, Doer

\* TheScribe removes what CloudGazer waits for.
LEMMA OrderlyDel ==
  ASSUME TypeInv, Shape, Orderly, ~Idle, Command = "DEL"
  PROVE  Client = "gazer" /\ At(Key, 3)
  <1>1. Client \in Clients
    BY DEF Shape, ServedShape, Rewrites
  <1>2. todo[Client] # <<>> /\ Current(Client).do = "DEL" /\ Current(Client).key = Key
    BY <1>1 DEF TypeInv, ServingOK
  <1>3. Client = "gazer"
    BY <1>1, <1>2, OrderlyCalls
  <1> QED BY <1>2, <1>3, RemovalPhase DEF Shape

\* Who changes what CloudGazer has to do.
LEMMA GazerMoves ==
  ASSUME TypeInv, Shape, [Next]_<<vars, world>>
  PROVE  \/ UNCHANGED event /\ todo'["gazer"] = todo["gazer"]
         \/ Transact("gazer") /\ UNCHANGED event
         \/ Ask("gazer") /\ Current("gazer").do \in Rewrites /\ UNCHANGED event
              /\ todo["gazer"] # <<>> /\ todo'["gazer"] = Tail(todo["gazer"])
         \/ Acked("gazer") /\ UNCHANGED event
              /\ todo["gazer"] # <<>> /\ todo'["gazer"] = Tail(todo["gazer"])
         \/ Write /\ Client = "gazer" /\ ~Idle /\ Idle' /\ UNCHANGED event
              /\ todo["gazer"] # <<>> /\ todo'["gazer"] = Tail(todo["gazer"])
         \/ SetSerial /\ todo["gazer"] = <<>> /\ todo'["gazer"] = <<>>
         \/ \E e \in PyPIEvents : ReadPyPI(e) /\ event' = e /\ todo["gazer"] = <<>>
                                  /\ todo'["gazer"] = EventScript(e, packages)
         \/ (Restart \/ Crash) /\ UNCHANGED event
              /\ todo'["gazer"] = IF event # NoEvent THEN EventScript(event, db.pkgs) ELSE <<>>
  <1>0. DOMAIN todo = Clients /\ "gazer" \in Clients /\ "chase" \in Clients /\ "driver" \in Clients
    BY ClientFacts DEF TypeInv, ScriptsOK
  <1>1. \A c \in Clients : \A x : c # "gazer" /\ Then(c, x) => todo'["gazer"] = todo["gazer"]
    BY <1>0, ThenTodo
  <1>2. \A x : Then("gazer", x) => todo'["gazer"] = x
    BY <1>0, ThenTodo
  <1>3. CASE \E c \in Clients : Transact(c)
    <2>1. PICK c \in Clients : Transact(c)
      BY <1>3
    <2>2. UNCHANGED event /\ (c # "gazer" => todo'["gazer"] = todo["gazer"])
      BY <1>0, <2>1, TransactEffect DEF gazerVars
    <2> QED BY <2>1, <2>2
  <1>4. CASE \E c \in Clients : Ask(c)
    <2>1. PICK c \in Clients : Ask(c)
      BY <1>4
    <2>2. UNCHANGED event /\ todo[c] # <<>>
          /\ IF Current(c).do \in Rewrites THEN Then(c, Tail(todo[c])) ELSE UNCHANGED todo
      BY <2>1 DEF Ask, Asks, gazerVars
    <2> QED BY <1>1, <1>2, <2>1, <2>2
  <1>5. CASE \E c \in Clients : Exclude(c)
    BY <1>5 DEF Exclude, gazerVars
  <1>6. CASE \E c \in Clients : Acked(c)
    <2>1. PICK c \in Clients : Acked(c)
      BY <1>6
    <2>2. UNCHANGED event /\ todo[c] # <<>> /\ Then(c, Tail(todo[c]))
      BY <2>1 DEF Acked, gazerVars
    <2> QED BY <1>1, <1>2, <2>1, <2>2
  <1>7. CASE Due
    BY <1>7 DEF Due, gazerVars
  <1>8. CASE Write
    <2>1. UNCHANGED event /\ ~Idle
          /\ (UNCHANGED todo \/ (Idle' /\ Client # Itself /\ Then(Client, Tail(todo[Client]))))
      BY <1>8 DEF Write, HandleIndex, Client, gazerVars
    <2>2. Client # Itself => Client \in Clients /\ todo[Client] # <<>>
      BY <2>1, ServedFacts DEF TypeInv, ServingOK
    <2>3. CASE UNCHANGED todo
      BY <2>1, <2>3
    <2>4. CASE ~UNCHANGED todo
      <3>1. PICK c \in Clients : c = Client
        BY <2>1, <2>2, <2>4
      <3>2. Then(c, Tail(todo[c])) /\ todo[c] # <<>> /\ Idle'
        BY <2>1, <2>2, <2>4, <3>1
      <3> QED BY <1>1, <1>2, <1>8, <2>1, <3>1, <3>2
    <2> QED BY <2>3, <2>4
  <1>9. CASE SetSerial
    BY <1>9 DEF SetSerial, Free
  <1>10. CASE Reply
    BY <1>0, <1>1, <1>10, ClientFacts DEF Reply, gazerVars
  <1>11. CASE \E b \in Builds : Built(b) \/ FailedBuild(b) \/ SentBuild(b) \/ SentImport(b)
    <2>1. UNCHANGED event /\ (UNCHANGED todo \/ \E x : Then("driver", x) \/ Then("chase", x))
      BY <1>11 DEF Built, FailedBuild, SentBuild, SentImport, gazerVars
    <2> QED BY <1>0, <1>1, <2>1, ClientFacts
  <1>12. CASE \E e \in PyPIEvents : ReadPyPI(e)
    <2>1. PICK e \in PyPIEvents : ReadPyPI(e)
      BY <1>12
    <2>2. event' = e /\ todo["gazer"] = <<>> /\ todo'["gazer"] = EventScript(e, packages)
      BY <1>2, <2>1 DEF ReadPyPI, Free
    <2> QED BY <2>1, <2>2
  <1>13. CASE \E r \in ChaseRequests : HandleImport(r)
    BY <1>0, <1>1, <1>13, ClientFacts DEF HandleImport, gazerVars
  <1>14. CASE Restart \/ Crash
    <2>1. /\ UNCHANGED event
          /\ todo' = [c \in Clients |->
                IF c = "gazer" /\ event # NoEvent
                THEN EventScript(event, db.pkgs) ELSE <<>>]
      BY <1>14 DEF Restart, Crash, Start
    <2>2. todo'["gazer"] = IF event # NoEvent THEN EventScript(event, db.pkgs) ELSE <<>>
      BY <1>0, <2>1
    <2> QED BY <1>14, <2>1, <2>2
  <1>15. CASE UNCHANGED <<vars, world>>
    BY <1>15 DEF vars, gazerVars
  <1> QED BY <1>3, <1>4, <1>5, <1>6, <1>7, <1>8, <1>9, <1>10, <1>11, <1>12, <1>13, <1>14, <1>15
          DEF Next, Step, Over

LEMMA RemovalStep ==
  ASSUME TypeInv, Shape, [Next]_<<vars, world>>, NEW k, NEW n \in 1..3, At(k, n)'
  PROVE  \/ At(k, n) /\ UNCHANGED event /\ todo'["gazer"] = todo["gazer"]
         \/ n = 3 /\ At(k, 4) /\ Transact("gazer")
         \/ n = 2 /\ At(k, 3) /\ Write /\ ~Idle /\ Idle' /\ Client = "gazer"
              /\ Command = "DEL" /\ Key = k
         \/ n = 1 /\ At(k, 2) /\ Acked("gazer")
  <1>0. /\ event' = [action |-> "remove", key |-> k] /\ todo'["gazer"] = Rest(k, n)
        /\ event' # NoEvent /\ event'.action = "remove" /\ event'.key = k
        /\ todo'["gazer"] # <<>>
    <2>1. event' = [action |-> "remove", key |-> k] /\ todo'["gazer"] = Rest(k, n)
      BY DEF At
    <2>2. todo'["gazer"] # <<>>
      BY <2>1, RestSteps
    <2> QED BY <2>1, <2>2 DEF NoEvent
  <1> USE DEF Shape
  <1>1. CASE UNCHANGED event /\ todo'["gazer"] = todo["gazer"]
    BY <1>0, <1>1 DEF At
  <1>a. ASSUME UNCHANGED event, todo["gazer"] # <<>>, todo'["gazer"] = Tail(todo["gazer"])
        PROVE  At(k, n + 1)
    <2>1. PICK m \in 1..4 : At(k, m)
      BY <1>0, <1>a, RemovalPhase
    <2>a. m \in 0..4 /\ m # 0 /\ m - 1 \in 0..4
      OBVIOUS
    <2>2. todo'["gazer"] = Rest(k, m - 1) /\ m - 1 \in 0..4
      BY <1>a, <2>1, <2>a, AtFacts
    <2>3. Len(Rest(k, m - 1)) = m - 1 /\ Len(Rest(k, n)) = n
      BY <2>2, RestSteps, SMTT(30)
    <2>4. m = n + 1
      BY <1>0, <2>2, <2>3
    <2> QED BY <2>1, <2>4
  <1>b. ASSUME UNCHANGED event, todo["gazer"] # <<>>
        PROVE  /\ Current("gazer").do \in {"skip", "DEL", "ack", "delete"}
               /\ Current("gazer").yes = <<>>
    BY <1>0, <1>b, RemovalCurrent
  <1>c. Do("DEL", k).do = "DEL" /\ Do("ack", k).do = "ack"
    BY DoFields
  <1>d. n = 1 \/ n = 2 \/ n = 3
    OBVIOUS
  <1>2. CASE Transact("gazer") /\ UNCHANGED event
    <2> DEFINE s == Current("gazer")
    <2>1. /\ todo["gazer"] # <<>> /\ s.do \notin Commands \cup OwnOps
          /\ todo'["gazer"] = Following(s) \o Tail(todo["gazer"])
      BY <1>0, <1>2, TransactEffect, ClientFacts
    <2>2. Following(s) = <<>>
      BY <1>2, <1>b, <2>1, PlainFollowing
    <2>3. todo'["gazer"] = Tail(todo["gazer"])
      <3>1. Tail(todo["gazer"]) \in Seq(Statements("gazer"))
        BY <2>1, CurrentType, ClientFacts DEF TypeInv, Doer
      <3> QED BY <2>1, <2>2, <3>1, EmptyConcat
    <2>4. At(k, n + 1)
      BY <1>2, <1>a, <2>1, <2>3
    <2>5. /\ n = 1 => At(k, 2) /\ s = Do("ack", k)
          /\ n = 2 => At(k, 3) /\ s = Do("DEL", k)
          /\ n = 3 => At(k, 4)
      BY <2>4, AtFacts
    <2> QED BY <1>2, <1>c, <1>d, <2>1, <2>5 DEF Commands, OwnOps
  <1>3. CASE Ask("gazer") /\ Current("gazer").do \in Rewrites /\ UNCHANGED event
             /\ todo["gazer"] # <<>>
    BY <1>3, <1>b DEF Rewrites
  <1>4. CASE Acked("gazer") /\ UNCHANGED event
              /\ todo["gazer"] # <<>> /\ todo'["gazer"] = Tail(todo["gazer"])
    <2>1. Current("gazer").do = "ack"
      BY <1>4 DEF Acked
    <2>2. At(Current("gazer").key, 2) /\ At(k, n + 1) /\ n + 1 \in 0..4
      BY <1>4, <1>a, <2>1, RemovalPhase
    <2>3. n = 1 /\ At(k, 2)
      BY <2>2, AtFacts
    <2> QED BY <1>4, <2>3
  <1>5. CASE Write /\ Client = "gazer" /\ ~Idle /\ Idle' /\ UNCHANGED event
              /\ todo["gazer"] # <<>> /\ todo'["gazer"] = Tail(todo["gazer"])
    <2>1. Command \in {"LOG", "DEL"} /\ Current("gazer").do = Command /\ Current("gazer").key = Key
      BY <1>5, ClientFacts DEF ServedShape, TypeInv, ServingOK
    <2>2. Command = "DEL"
      BY <1>5, <1>b, <2>1
    <2>3. At(Key, 3) /\ At(k, n + 1) /\ n + 1 \in 0..4
      BY <1>5, <1>a, <2>1, <2>2, RemovalPhase
    <2>4. n = 2 /\ At(k, 3) /\ Key = k
      BY <2>3, AtFacts
    <2> QED BY <1>5, <2>2, <2>4
  <1>6. CASE todo'["gazer"] = <<>>
    BY <1>0, <1>6
  <1>7. ASSUME NEW e \in PyPIEvents, NEW known, event' = e, todo'["gazer"] = EventScript(e, known)
        PROVE  FALSE
    <2>1. e.action = "remove" /\ e.key = k
      BY <1>0, <1>7
    <2>2. todo'["gazer"] = Rest(k, 4)
      BY <1>7, <2>1, RestIsRemoveScript, EventKeys DEF EventScript
    <2>3. Len(Rest(k, 4)) = 4 /\ Len(Rest(k, n)) = n
      BY RestSteps
    <2> QED BY <1>0, <2>2, <2>3
  <1>8. CASE (Restart \/ Crash) /\ UNCHANGED event
              /\ todo'["gazer"] = IF event # NoEvent THEN EventScript(event, db.pkgs) ELSE <<>>
    <2>1. event \in PyPIEvents
      BY <1>0, <1>8 DEF TypeInv, TasksOK
    <2> QED BY <1>0, <1>7, <1>8, <2>1
  <1> QED BY <1>1, <1>2, <1>3, <1>4, <1>5, <1>6, <1>7, <1>8, GazerMoves

LEMMA RemovalGoesOn ==
  ASSUME TypeInv, Shape, Orderly, [Next]_<<vars, world>>, NEW k, NEW n \in 1..3, At(k, n)
  PROVE  \/ At(k, n)' /\ UNCHANGED event /\ todo'["gazer"] = todo["gazer"]
         \/ n = 3 /\ At(k, 2)' /\ Write /\ ~Idle /\ Idle' /\ Client = "gazer"
              /\ Command = "DEL" /\ Key = k
         \/ n = 2 /\ At(k, 1)' /\ Acked("gazer")
         \/ n = 1 /\ Transact("gazer") /\ db' = Without(k)
  <1> USE DEF Shape
  <1>0. /\ event.action = "remove" /\ event.key = k /\ todo["gazer"] # <<>>
        /\ event = [action |-> "remove", key |-> k] /\ event # NoEvent
        /\ Tail(todo["gazer"]) = Rest(k, n - 1)
    <2>1. n \in 0..4 /\ n # 0
      OBVIOUS
    <2>2. event = [action |-> "remove", key |-> k]
      BY DEF At
    <2>3. event # NoEvent
      BY <2>2 DEF NoEvent
    <2> QED BY <2>1, <2>2, <2>3, AtFacts
  <1>a. ASSUME UNCHANGED event, todo'["gazer"] = Tail(todo["gazer"]) PROVE At(k, n - 1)'
    BY <1>0, <1>a DEF At
  <1>b. /\ Current("gazer").do \in {"skip", "DEL", "ack", "delete"}
        /\ Current("gazer").yes = <<>>
    BY <1>0, RemovalCurrent
  <1>c. /\ Do("DEL", k).do = "DEL" /\ Do("ack", k).do = "ack" /\ Do("DEL", k).key = k
        /\ Do("delete", k).do = "delete" /\ Do("delete", k).key = k
    BY DoFields
  <1>d. n = 1 \/ n = 2 \/ n = 3
    OBVIOUS
  <1>e. /\ n = 1 => Current("gazer") = Do("delete", k)
        /\ n = 2 => Current("gazer") = Do("ack", k)
        /\ n = 3 => Current("gazer") = Do("DEL", k)
    BY AtFacts
  <1>1. CASE UNCHANGED event /\ todo'["gazer"] = todo["gazer"]
    BY <1>1 DEF At
  <1>2. CASE Transact("gazer") /\ UNCHANGED event
    <2>1. Current("gazer").do \notin Commands \cup OwnOps
      BY <1>2, TransactEffect, ClientFacts
    <2>2. n = 1
      BY <1>c, <1>d, <1>e, <2>1 DEF Commands, OwnOps
    <2>3. ~Refused(Current("gazer")) /\ Executed(Current("gazer")) = Without(k)
      BY <1>c, <1>e, <2>2 DEF Refused, Executed
    <2>4. db' = Executed(Current("gazer"))
      BY <1>2, <2>3 DEF Transact
    <2> QED BY <1>2, <2>2, <2>3, <2>4
  <1>3. CASE Ask("gazer") /\ Current("gazer").do \in Rewrites
    BY <1>3, <1>b DEF Rewrites
  <1>4. CASE Acked("gazer") /\ UNCHANGED event
              /\ todo["gazer"] # <<>> /\ todo'["gazer"] = Tail(todo["gazer"])
    <2>1. Current("gazer").do = "ack"
      BY <1>4 DEF Acked
    <2>2. n = 2
      BY <1>c, <1>d, <1>e, <2>1
    <2> QED BY <1>4, <1>a, <2>2
  <1>5. CASE Write /\ Client = "gazer" /\ ~Idle /\ Idle' /\ UNCHANGED event
              /\ todo["gazer"] # <<>> /\ todo'["gazer"] = Tail(todo["gazer"])
    <2>1. Command \in {"LOG", "DEL"} /\ Current("gazer").do = Command /\ Current("gazer").key = Key
      BY <1>5, ClientFacts DEF ServedShape, TypeInv, ServingOK
    <2>2. Command = "DEL" /\ n = 3 /\ Key = k
      BY <1>b, <1>c, <1>d, <1>e, <2>1
    <2> QED BY <1>5, <1>a, <2>2
  <1>6. CASE todo["gazer"] = <<>>
    BY <1>0, <1>6
  <1>7. CASE Restart \/ Crash
    BY <1>0, <1>7, ClientFacts DEF Restart, Crash, Orderly
  <1> QED BY <1>1, <1>2, <1>3, <1>4, <1>5, <1>6, <1>7, GazerMoves

\* Whom TheScribe works for, after a step.
LEMMA ServingStep ==
  ASSUME TypeInv, [Next]_<<vars, world>>
  PROVE  \/ UNCHANGED serving
         \/ Idle'
         \/ Due /\ Idle /\ ~Idle' /\ Client' = Itself
              /\ Command' \in Rewrites /\ Key' = Package(Head(buffer))
         \/ \E c \in Clients : /\ Ask(c) /\ Idle /\ UNCHANGED todo
                               /\ Current(c).do \in {"LOG", "DEL"}
                               /\ Client' = c /\ Command' = Current(c).do /\ Key' = Current(c).key
  <1>1. CASE UNCHANGED serving
    BY <1>1
  <1>2. ASSUME NEW c \in Clients, Ask(c), ~UNCHANGED serving
        PROVE  /\ Idle /\ UNCHANGED todo /\ Current(c).do \in {"LOG", "DEL"}
               /\ Client' = c /\ Command' = Current(c).do /\ Key' = Current(c).key
    BY <1>2 DEF Ask, Asks, HandleInput, Commands, Client, Command, Key
  <1>3. CASE Due
    <2>1. serving' = <<Itself, commands[Head(buffer)], Package(Head(buffer))>> /\ Idle
      BY <1>3 DEF Due, HandleOutput
    <2>2. commands[Head(buffer)] \in Rewrites
      <3>1. Head(buffer) = buffer[1] /\ 1 \in DOMAIN buffer
        BY <1>3, TailInSeq DEF Due, HandleOutput, TypeInv, BufferOK
      <3>2. Head(buffer) \in DOMAIN commands
        BY <3>1 DEF TypeInv, BufferOK, ToSet
      <3> QED BY <3>2 DEF TypeInv, BufferOK
    <2> QED BY <1>3, <2>1, <2>2 DEF Idle, Client, Command, Key
  <1>4. CASE Write
    <2>1. serving' = serving \/ serving' = <<>>
      BY <1>4, HandleIndexType DEF Write, TypeInv
    <2> QED BY <2>1 DEF Idle
  <1>5. CASE \E c \in Clients : Transact(c) \/ Exclude(c) \/ Acked(c)
    BY <1>5 DEF Transact, Exclude, Acked, webVars, secretaryVars
  <1>6. CASE SetSerial \/ Reply
    BY <1>6 DEF SetSerial, Reply, webVars, secretaryVars
  <1>7. CASE \E b \in Builds : Built(b) \/ FailedBuild(b) \/ SentBuild(b) \/ SentImport(b)
    BY <1>7 DEF Built, FailedBuild, SentBuild, SentImport, webVars, secretaryVars
  <1>8. CASE (\E e \in PyPIEvents : ReadPyPI(e)) \/ (\E r \in ChaseRequests : HandleImport(r))
    BY <1>8 DEF ReadPyPI, HandleImport, webVars, secretaryVars
  <1>9. CASE Restart \/ Crash
    BY <1>9 DEF Restart, Crash, Start, Load, Idle
  <1>10. CASE UNCHANGED <<vars, world>>
    BY <1>10 DEF vars, webVars, secretaryVars
  <1> QED BY <1>1, <1>2, <1>3, <1>4, <1>5, <1>6, <1>7, <1>8, <1>9, <1>10 DEF Next, Step, Over

\* What SlaveDriver has been told, and what it is sent, after a step.
LEMMA DriverFrame ==
  ASSUME TypeInv, [Next]_<<vars, world>>
  PROVE  /\ late \subseteq late'
         /\ \/ sending' \subseteq sending
            \/ \E b \in Builds : Built(b) /\ sending' = sending \cup {b}
         /\ \/ excluded \subseteq excluded'
            \/ \E e \in PyPIEvents : ReadPyPI(e)
            \/ Restart \/ Crash
         /\ \/ acked' = acked
            \/ \E c \in Clients : Exclude(c) /\ acked' = acked \cup {c}
            \/ \E c \in Clients : Acked(c) /\ acked' = acked \ {c}
            \/ acked' = {}
  <1>1. CASE \E c \in Clients : Transact(c)
    BY <1>1 DEF Transact, driverVars, history
  <1>2. CASE \E c \in Clients : Ask(c)
    BY <1>2 DEF Ask, driverVars
  <1>3. CASE \E c \in Clients : Exclude(c)
    BY <1>3 DEF Exclude
  <1>4. CASE \E c \in Clients : Acked(c)
    BY <1>4 DEF Acked, driverVars, history
  <1>5. CASE Due \/ Write \/ SetSerial \/ Reply
    BY <1>5 DEF Due, Write, SetSerial, Reply, driverVars, history
  <1>6. CASE \E b \in Builds : Built(b)
    BY <1>6 DEF Built, history
  <1>7. CASE \E b \in Builds : FailedBuild(b) \/ SentBuild(b) \/ SentImport(b)
    BY <1>7 DEF FailedBuild, SentBuild, SentImport, driverVars, history
  <1>8. CASE \E e \in PyPIEvents : ReadPyPI(e)
    BY <1>8 DEF ReadPyPI, history
  <1>9. CASE \E r \in ChaseRequests : HandleImport(r)
    BY <1>9 DEF HandleImport, driverVars, history
  <1>10. CASE Restart \/ Crash
    BY <1>10 DEF Restart, Crash, Start
  <1>11. CASE UNCHANGED <<vars, world>>
    BY <1>11 DEF vars, driverVars, history
  <1> QED BY <1>1, <1>2, <1>3, <1>4, <1>5, <1>6, <1>7, <1>8, <1>9, <1>10, <1>11 DEF Next, Step, Over

-----------------------------------------------------------------------------
(* Removals in an orderly world, while no task has died.                    *)

Good == Orderly /\ Up

\* TheScribe works on the removal of k.
Del(k) == ~Idle /\ Command = "DEL" /\ Key = k

\* The wheels of k that the database knows are gone.
Past(k) == At(k, 1) \/ At(k, 2) \/ (At(k, 3) /\ Del(k) /\ stage # "start")

\* SlaveDriver has taken note of the removal of k.
Noted(k) == At(k, 1) \/ (At(k, 2) /\ acked # {}) \/ (At(k, 3) /\ acked # {})

LEMMA NoAction ==
  ASSUME [Next]_<<vars, world>>, ~Up
  PROVE  UNCHANGED vars
  BY DEF Next, Step, Transact, Transacts, Ask, Asks, Exclude, Acked, Due, Write, SetSerial, Reply, Built,
     FailedBuild, SentBuild, SentImport, ReadPyPI, HandleImport, Restart, Crash, Over, Free

LEMMA GoodBefore ==
  ASSUME [Next]_<<vars, world>>, Good'
  PROVE  Good
  <1>1. UNCHANGED world
    BY DEF Next
  <1>2. ~Up => UNCHANGED vars
    BY NoAction
  <1>3. ~Up => dead' = dead
    BY <1>2 DEF vars
  <1> QED BY <1>1, <1>3 DEF Good, Orderly, Up

LEMMA AtKeys ==
  ASSUME TypeInv, NEW k, NEW n, At(k, n)
  PROVE  k \in Keys /\ event = [action |-> "remove", key |-> k]
  <1>1. event = [action |-> "remove", key |-> k]
    BY DEF At
  <1>2. event \in PyPIEvents
    BY <1>1 DEF TypeInv, TasksOK, NoEvent
  <1> QED BY <1>1, <1>2, EventKeys

\* A removal whose pages are gone is what the others see as one.
LEMMA RemovingFacts ==
  ASSUME NEW k, At(k, 1) \/ At(k, 2)
  PROVE  Removing("gazer") /\ BusyWith("gazer", k[1])
  <1>1. ASSUME NEW do PROVE Do(do, k).do = do /\ Do(do, k).key = k
    BY DoFields
  <1> DEFINE t == todo["gazer"]
  <1>2. CASE At(k, 1)
    <2>1. t = <<Do("delete", k)>>
      BY <1>2 DEF At, Rest
    <2> HIDE DEF Do
    <2>2. Len(t) = 1 /\ t[1] = Do("delete", k)
      BY <2>1
    <2> HIDE DEF t
    <2>3. t[1].do = "delete" /\ t[1].key = k /\ 1 \in 1..Len(t)
      BY <1>1, <2>2
    <2>4. \A j \in 1..1 : t[j].do # "DEL"
      BY <2>3
    <2> QED BY <2>3, <2>4 DEF Removing, BusyWith, t
  <1>3. CASE At(k, 2)
    <2>1. t = <<Do("ack", k), Do("delete", k)>>
      BY <1>3 DEF At, Rest
    <2> HIDE DEF Do
    <2>2. Len(t) = 2 /\ t[1] = Do("ack", k) /\ t[2] = Do("delete", k)
      BY <2>1
    <2> HIDE DEF t
    <2>3. t[2].do = "delete" /\ t[1].do = "ack" /\ t[2].key = k /\ 2 \in 1..Len(t)
      BY <1>1, <2>2
    <2>4. \A j \in 1..2 : t[j].do # "DEL"
      <3>1. \A j \in 1..2 : j = 1 \/ j = 2
        OBVIOUS
      <3> QED BY <2>3, <3>1
    <2> QED BY <2>3, <2>4 DEF Removing, BusyWith, t
  <1> QED BY <1>2, <1>3

LEMMA PastRemoves ==
  ASSUME NEW k, Past(k)
  PROVE  \E i \in 1..Len(todo["gazer"]) :
           todo["gazer"][i].do = "delete" /\ todo["gazer"][i].key = k
  <1>1. Do("delete", k).do = "delete" /\ Do("delete", k).key = k
    BY DoFields
  <1> DEFINE t == todo["gazer"]
  <1>2. PICK n \in 1..3 : t = Rest(k, n)
    BY DEF Past, At
  <1> HIDE DEF Do
  <1>3. n = 1 \/ n = 2 \/ n = 3
    OBVIOUS
  <1>4. Len(t) = n /\ t[n] = Do("delete", k)
    BY <1>2, <1>3 DEF Rest
  <1> HIDE DEF t
  <1>5. n \in 1..Len(t) /\ t[n].do = "delete" /\ t[n].key = k
    BY <1>1, <1>4
  <1> QED BY <1>5 DEF t

\* No page is being written when the rows of a removal go.
Calm == Good /\ ~Idle /\ Command \in Rewrites => \A k : ~At(k, 1) /\ ~At(k, 2)

\* Only removals are taken note of.
Acks ==
  Good => /\ acked \subseteq {"gazer"}
          /\ acked # {} => At(event.key, 2) \/ At(event.key, 3)

LEMMA CalmStep ==
  ASSUME TypeInv, Shape, Calm, [Next]_<<vars, world>>
  PROVE  Calm'
  <1> SUFFICES ASSUME Good', ~Idle', Command' \in Rewrites, NEW k, NEW n \in 1..2, At(k, n)'
               PROVE  FALSE
    BY DEF Calm
  <1>0. Good
    BY GoodBefore
  <1>1. n = 1 \/ n = 2
    OBVIOUS
  <1>2. n \in 1..3
    OBVIOUS
  <1>3. At(k, 1) \/ At(k, 2) \/ (Write /\ Idle')
    BY <1>1, <1>2, RemovalStep
  <1>4. CASE UNCHANGED serving
    <2>1. ~Idle /\ Command \in Rewrites
      BY <1>4 DEF Idle, Command
    <2> QED BY <1>0, <1>3, <2>1 DEF Calm
  <1>5. CASE Due
    <2>1. ~Removing("gazer")
      BY <1>0, <1>5, ClientFacts DEF Due, Good, Orderly
    <2>2. ~At(k, 1) /\ ~At(k, 2)
      BY <2>1, RemovingFacts
    <2> QED BY <1>3, <2>2
  <1>6. CASE Command' \in {"LOG", "DEL"}
    BY <1>6 DEF Rewrites
  <1> QED BY <1>4, <1>5, <1>6, ServingStep

LEMMA AcksStep ==
  ASSUME TypeInv, Shape, Acks, [Next]_<<vars, world>>
  PROVE  Acks'
  <1> SUFFICES ASSUME Good'
               PROVE  /\ acked' \subseteq {"gazer"}
                      /\ acked' # {} => At(event.key, 2)' \/ At(event.key, 3)'
    BY DEF Acks
  <1>k. PICK k : k = event.key
    OBVIOUS
  <1>0. Good /\ Orderly
    BY GoodBefore DEF Good
  <1>1. acked \subseteq {"gazer"} /\ (acked # {} => At(k, 2) \/ At(k, 3))
    BY <1>0, <1>k DEF Acks
  <1>2. CASE acked' = {}
    BY <1>2
  <1>3. ASSUME NEW c \in Clients, Acked(c), acked' = acked \ {c} PROVE acked' = {}
    <2>1. c = "gazer"
      BY <1>0, <1>3, OrderlyCalls DEF Acked
    <2> QED BY <1>1, <1>3, <2>1
  <1>4. ASSUME NEW c \in Clients, Exclude(c), acked' = acked \cup {c}
        PROVE  /\ acked' \subseteq {"gazer"}
               /\ At(event.key, 2)' \/ At(event.key, 3)'
    <2>1. /\ todo[c] # <<>> /\ Current(c).do \in {"DEL", "ack"}
          /\ UNCHANGED todo /\ UNCHANGED event
      BY <1>4 DEF Exclude, gazerVars
    <2>2. c = "gazer"
      BY <1>0, <2>1, OrderlyCalls
    <2>3. At(Current("gazer").key, 3) \/ At(Current("gazer").key, 2)
      BY <2>1, <2>2, RemovalPhase DEF Shape
    <2>4. Current("gazer").key = k
      BY <1>k, <2>3 DEF At
    <2>5. At(k, 2) \/ At(k, 3)
      BY <2>3, <2>4
    <2> QED BY <1>1, <1>4, <1>k, <2>1, <2>2, <2>5 DEF At
  <1>5. CASE acked' = acked /\ acked # {}
    <2>1. PICK n \in 2..3 : At(k, n)
      BY <1>1, <1>5
    <2>2. n \in 1..3 /\ n # 1
      OBVIOUS
    <2>3. \/ At(k, n)' /\ UNCHANGED event
          \/ n = 3 /\ At(k, 2)' /\ Write
          \/ n = 2 /\ Acked("gazer")
      BY <1>0, <2>1, <2>2, RemovalGoesOn
    <2>4. n = 2 \/ n = 3
      OBVIOUS
    <2>5. CASE n = 2 /\ Acked("gazer")
      BY <1>1, <1>5, <2>5 DEF Acked
    <2>6. ASSUME NEW m, At(k, m)' PROVE event'.key = k
      BY <2>6 DEF At
    <2> QED BY <1>1, <1>5, <2>3, <2>4, <2>5, <2>6
  <1> QED BY <1>2, <1>3, <1>4, <1>5, DriverFrame

-----------------------------------------------------------------------------
(* Who changes the wheels, the rows, and what SlaveDriver has to do.        *)

\* TheScribe's steps, told apart by what they are for.
LEMMA WriteCases ==
  ASSUME TypeInv, Shape, Write
  PROVE  /\ ~Idle /\ Key \in Keys /\ Target \in Pkgs /\ Target = Key[1]
         /\ UNCHANGED <<db, acked, dead, gazerVars, driverVars, chaseVars, history, spent>>
         /\ UNCHANGED <<buffer, commands, saved>>
         /\ \/ DeleteVersion /\ UNCHANGED todo
            \/ GetData /\ UNCHANGED todo
            \/ /\ WritePages \/ DeletePackage \/ WriteLog
               /\ Idle'
         /\ \/ UNCHANGED todo
            \/ /\ Idle' /\ Client \in Clients /\ Client # Itself
               /\ todo[Client] # <<>> /\ Current(Client).do = Command
               /\ todo'[Client] = Tail(todo[Client])
               /\ \A d \in Clients : d # Client => todo'[d] = todo[d]
  <1>1. ~Idle /\ HandleIndex /\ UNCHANGED <<db, acked, dead, gazerVars, driverVars, chaseVars, history, spent>>
    BY DEF Write, HandleIndex
  <1>2. Key \in Keys /\ Target \in Pkgs /\ Target = Key[1] /\ Client \in Clients \cup {Itself}
    BY <1>1, ServedFacts DEF TypeInv, Target
  <1>3. UNCHANGED <<buffer, commands, saved>>
    BY <1>1, HandleIndexType DEF TypeInv
  <1>4. DeleteVersion \/ GetData => Idle' = Idle
    BY DEF DeleteVersion, GetData, secretaryVars, Idle
  <1>5. WritePages \/ DeletePackage \/ WriteLog => Idle'
    BY DEF WritePages, DeletePackage, WriteLog, HandleDone, Idle
  <1>6. UNCHANGED todo \/ (Idle' /\ Client # Itself /\ Then(Client, Tail(todo[Client])))
    BY DEF Write, Client
  <1>7. ASSUME ~UNCHANGED todo
        PROVE  /\ Idle' /\ Client \in Clients /\ Client # Itself
               /\ todo[Client] # <<>> /\ Current(Client).do = Command
               /\ todo'[Client] = Tail(todo[Client])
               /\ \A d \in Clients : d # Client => todo'[d] = todo[d]
    <2>1. Client \in Clients
      BY <1>2, <1>6, <1>7
    <2>2. PICK c \in Clients : c = Client
      BY <2>1
    <2>3. todo'[c] = Tail(todo[c]) /\ \A d \in Clients : d # c => todo'[d] = todo[d]
      BY <1>6, <1>7, <2>2, ThenTodo DEF TypeInv, ScriptsOK
    <2> QED BY <1>1, <1>6, <1>7, <2>1, <2>2, <2>3 DEF TypeInv, ServingOK
  <1> QED BY <1>1, <1>2, <1>3, <1>4, <1>5, <1>6, <1>7 DEF HandleIndex

LEMMA WheelStep ==
  ASSUME TypeInv, Shape, [Next]_<<vars, world>>
  PROVE  \/ UNCHANGED wheels
         \/ \E b \in Builds : (SentBuild(b) \/ SentImport(b)) /\ wheels' = wheels \cup {b}
         \/ /\ Write /\ ~Idle /\ Command = "DEL" /\ stage = "start"
            /\ DeleteVersion \/ DeletePackage
            /\ wheels' = wheels \ (Covered(Key) \cap db.files)
  <1>1. CASE \E c \in Clients : Transact(c) \/ Exclude(c) \/ Acked(c)
    BY <1>1 DEF Transact, Exclude, Acked, webVars, scribeVars
  <1>2. CASE \E c \in Clients : Ask(c)
    BY <1>2 DEF Ask, scribeVars
  <1>3. CASE Due
    BY <1>3 DEF Due, scribeVars
  <1>4. CASE Write
    <2>1. ~Idle /\ (DeleteVersion \/ GetData \/ WritePages \/ DeletePackage \/ WriteLog)
      BY <1>4 DEF Write, HandleIndex
    <2>2. CASE DeleteVersion
      BY <1>4, <2>1, <2>2 DEF DeleteVersion
    <2>3. CASE GetData \/ WritePages \/ WriteLog
      BY <2>3 DEF GetData, WritePages, WriteLog, scribeVars
    <2>4. CASE DeletePackage
      <3>1. stage = "start"
        BY <2>4, StageFacts DEF TypeInv, DeletePackage, Rewrites
      <3> QED BY <1>4, <2>1, <2>4, <3>1 DEF DeletePackage
    <2> QED BY <2>1, <2>2, <2>3, <2>4
  <1>5. CASE SetSerial \/ Reply
    BY <1>5 DEF SetSerial, Reply, webVars, scribeVars
  <1>6. CASE \E b \in Builds : Built(b) \/ FailedBuild(b)
    BY <1>6 DEF Built, FailedBuild, webVars, scribeVars
  <1>7. CASE \E b \in Builds : SentBuild(b) \/ SentImport(b)
    BY <1>7 DEF SentBuild, SentImport
  <1>8. CASE (\E e \in PyPIEvents : ReadPyPI(e)) \/ (\E r \in ChaseRequests : HandleImport(r))
    BY <1>8 DEF ReadPyPI, HandleImport, webVars, scribeVars
  <1>9. CASE Restart \/ Crash
    BY <1>9 DEF Restart, Crash, Start, ScribeOnce
  <1>10. CASE UNCHANGED <<vars, world>>
    BY <1>10 DEF vars, webVars, scribeVars
  <1> QED BY <1>1, <1>2, <1>3, <1>4, <1>5, <1>6, <1>7, <1>8, <1>9, <1>10 DEF Next, Step, Over

\* Rows go when CloudGazer ends a removal, and at no other time.
LEMMA RowsStep ==
  ASSUME TypeInv, Shape, Orderly, [Next]_<<vars, world>>
  PROVE  /\ \A p : p \in db.pkgs /\ p \notin db'.pkgs => Transact("gazer") /\ At(Package(p), 1)
         /\ \A b : b \in db.vers /\ b \notin db'.vers =>
              Transact("gazer") /\ At(event.key, 1) /\ b \in Covered(event.key)
         /\ \A b : b \in db.files /\ b \notin db'.files =>
              Transact("gazer") /\ At(event.key, 1) /\ b \in Covered(event.key)
         /\ \A b : b \notin db.files /\ b \in db'.files =>
              \E c \in Clients : /\ Transact(c) /\ todo[c] # <<>>
                                 /\ Current(c).do = "logged" /\ Current(c).key = b
  <1>1. CASE UNCHANGED db
    BY <1>1
  <1>2. ASSUME NEW c \in Clients, Transact(c), ~UNCHANGED db
        PROVE  /\ \A p : p \in db.pkgs /\ p \notin db'.pkgs => Transact("gazer") /\ At(Package(p), 1)
               /\ \A b : b \in db.vers /\ b \notin db'.vers =>
                    Transact("gazer") /\ At(event.key, 1) /\ b \in Covered(event.key)
               /\ \A b : b \in db.files /\ b \notin db'.files =>
                    Transact("gazer") /\ At(event.key, 1) /\ b \in Covered(event.key)
               /\ \A b : b \notin db.files /\ b \in db'.files =>
                    Current(c).do = "logged" /\ Current(c).key = b
    <2> DEFINE s == Current(c)
    <2>1. todo[c] # <<>> /\ db' = Executed(s)
      BY <1>2, TransactEffect
    <2>2. s.key \in Keys /\ RowsOK
      BY <2>1, CurrentType DEF TypeInv
    <2>3. s.do = "delete" => c = "gazer" /\ At(s.key, 1) /\ event.key = s.key
      <3>1. s.do = "delete" => c = "gazer" /\ At(s.key, 1)
        BY <2>1, OrderlyCalls, RemovalPhase DEF Shape
      <3> QED BY <3>1 DEF At
    <2>4. s.do # "delbuilds"
      BY <2>1, OrderlyCalls
    <2>5. \A p : s.key[1] = p /\ s.key[2] = NoVer => s.key = Package(p)
      BY <2>2 DEF Keys, Package
    <2> HIDE DEF s
    <2>6. /\ \A p : p \in db.pkgs /\ p \notin db'.pkgs =>
               s.do = "delete" /\ s.key[2] = NoVer /\ p = s.key[1]
          /\ \A b : b \in db.vers /\ b \notin db'.vers => s.do = "delete" /\ b \in Covered(s.key)
          /\ \A b : b \in db.files /\ b \notin db'.files => s.do = "delete" /\ b \in Covered(s.key)
          /\ \A b : b \notin db.files /\ b \in db'.files => s.do = "logged" /\ s.key = b
      <3>1. /\ s.do = "addpkg" => db'.pkgs = db.pkgs \cup {s.key[1]} \/ (db' = db /\ Known(s.key))
            /\ s.do # "addpkg" /\ s.do # "delete" => db'.pkgs = db.pkgs
            /\ s.do = "delete" => db'.pkgs = IF s.key[2] = NoVer THEN db.pkgs \ {s.key[1]} ELSE db.pkgs
        BY <2>1, <2>2, RowChanges
      <3>2. /\ s.do = "addver" => db'.vers = db.vers \cup {s.key} \/ db' = db
            /\ s.do # "addver" /\ s.do # "delete" => db'.vers = db.vers
            /\ s.do = "delete" => db'.vers = db.vers \ Covered(s.key)
        BY <2>1, <2>2, RowChanges
      <3>3. /\ s.do = "delete" => db'.files = db.files \ Covered(s.key)
            /\ s.do = "logged" => db'.files = db.files \cup {s.key}
            /\ s.do \notin {"logged", "delete"} => db'.files = db.files
        BY <2>1, <2>2, <2>4, RowChanges
      <3>4. \A p : p \in db.pkgs /\ p \notin db'.pkgs =>
               s.do = "delete" /\ s.key[2] = NoVer /\ p = s.key[1]
        BY <3>1
      <3>5. \A b : b \in db.vers /\ b \notin db'.vers => s.do = "delete" /\ b \in Covered(s.key)
        BY <3>2
      <3>6. /\ \A b : b \in db.files /\ b \notin db'.files => s.do = "delete" /\ b \in Covered(s.key)
            /\ \A b : b \notin db.files /\ b \in db'.files => s.do = "logged" /\ s.key = b
        BY <3>3
      <3> QED BY <3>4, <3>5, <3>6
    <2>7. ASSUME NEW p, p \in db.pkgs, p \notin db'.pkgs
          PROVE  c = "gazer" /\ At(Package(p), 1)
      <3>1. s.do = "delete" /\ s.key = Package(p)
        BY <2>5, <2>6, <2>7
      <3> QED BY <2>3, <3>1 DEF s
    <2>8. ASSUME s.do = "delete" PROVE c = "gazer" /\ At(event.key, 1) /\ event.key = s.key
      BY <2>3, <2>8 DEF s
    <2>9. Transact(c) /\ (c = "gazer" => Transact("gazer"))
      BY <1>2
    <2>10. \A b : b \notin db.files /\ b \in db'.files =>
                    Current(c).do = "logged" /\ Current(c).key = b
      BY <2>6 DEF s
    <2>11. \A b : b \in db.vers /\ b \notin db'.vers =>
                    Transact("gazer") /\ At(event.key, 1) /\ b \in Covered(event.key)
      BY <2>6, <2>8, <2>9
    <2>12. \A b : b \in db.files /\ b \notin db'.files =>
                    Transact("gazer") /\ At(event.key, 1) /\ b \in Covered(event.key)
      BY <2>6, <2>8, <2>9
    <2> QED BY <2>7, <2>9, <2>10, <2>11, <2>12
  <1>3. ASSUME NEW c \in Clients, Transact(c) PROVE todo[c] # <<>>
    BY <1>3, TransactEffect
  <1> QED BY <1>1, <1>2, <1>3, RowsStay

\* The log of a build goes on one statement at a time; the announcement of a
\* build whose package is gone, or almost, is late.
LEMMA DriverMoves ==
  ASSUME TypeInv, Shape, Good, Good', [Next]_<<vars, world>>,
         NEW b, NEW status \in BOOLEAN, NEW n \in 1..3, Building(b, status, n)
  PROVE  \/ todo'["driver"] = todo["driver"]
         \/ n = 3 /\ Transact("driver") /\ db' = Executed(LogBuild(b, status)) /\ Building(b, status, 2)'
         \/ n = 2 /\ Write /\ Building(b, status, 1)'
         \/ n = 1 /\ Ask("driver") /\ Idle /\ (Gone(b[1]) => b[1] \in late')
  <1>0. DOMAIN todo = Clients /\ "gazer" \in Clients /\ "chase" \in Clients /\ "driver" \in Clients
    BY ClientFacts DEF TypeInv, ScriptsOK
  <1>1. \A c \in Clients : \A x : c # "driver" /\ Then(c, x) => todo'["driver"] = todo["driver"]
    BY <1>0, ThenTodo
  <1>2. \A x : Then("driver", x) => todo'["driver"] = x
    BY <1>0, ThenTodo
  <1> DEFINE s == Current("driver")
  <1>3. n = 1 \/ n = 2 \/ n = 3
    OBVIOUS
  <1>4. /\ todo["driver"] # <<>> /\ s.key[1] = b[1]
        /\ n = 3 => s = LogBuild(b, status) /\ s.do \in {"logged", "failed"}
        /\ n = 2 => s.do = "LOG"
        /\ n = 1 => s.do \in Rewrites
    BY <1>3, BuildingCurrent DEF News, Rewrites
  <1>5. ASSUME todo'["driver"] = Tail(todo["driver"])
        PROVE  /\ n = 3 => Building(b, status, 2)'
               /\ n = 2 => Building(b, status, 1)'
    BY <1>5, BuildRestSteps DEF Building
  <1>6. CASE Transact("driver")
    <2>1. s.do \notin Commands \cup OwnOps /\ dead' = {}
      BY <1>0, <1>6, TransactEffect DEF Good, Up
    <2>2. n = 3
      BY <1>3, <1>4, <2>1 DEF Commands
    <2>3. Following(s) = <<>>
      BY <1>4, <2>2, PlainFollowing, DoFields DEF LogBuild
    <2>4. db' = Executed(s) /\ todo'["driver"] = Following(s) \o Tail(todo["driver"])
      <3>1. dead' # dead \cup {"driver"}
        BY <2>1
      <3> QED BY <1>0, <1>6, <3>1, TransactEffect, ClientFacts
    <2>5. Tail(todo["driver"]) \in Seq(Statements("driver"))
      BY <1>0, <1>4, CurrentType DEF TypeInv, Doer
    <2>6. todo'["driver"] = Tail(todo["driver"])
      BY <2>3, <2>4, <2>5, EmptyConcat
    <2> QED BY <1>4, <1>5, <1>6, <2>2, <2>4, <2>6
  <1>7. CASE Ask("driver")
    <2>1. Idle /\ (Gone(s.key[1]) => s.key[1] \in late')
      BY <1>7, ClientFacts DEF Ask, HandleInput
    <2>2. CASE s.do \in Rewrites
      BY <1>3, <1>4, <1>7, <2>1, <2>2 DEF Rewrites
    <2>3. CASE s.do \notin Rewrites
      BY <1>7, <2>3 DEF Ask
    <2> QED BY <2>2, <2>3
  <1>8. CASE Exclude("driver") \/ Acked("driver")
    <2>1. s.do \in {"DEL", "ack"}
      BY <1>8 DEF Exclude, Acked
    <2> QED BY <1>3, <1>4, <2>1 DEF Rewrites
  <1>9. ASSUME NEW c \in Clients, c # "driver", Transact(c) \/ Ask(c) \/ Exclude(c) \/ Acked(c)
        PROVE  todo'["driver"] = todo["driver"]
    <2>1. CASE Transact(c)
      BY <1>0, <1>9, <2>1, TransactEffect
    <2>2. CASE Ask(c) \/ Exclude(c) \/ Acked(c)
      BY <1>1, <1>9, <2>2 DEF Ask, Exclude, Acked
    <2> QED BY <1>9, <2>1, <2>2
  <1>10. CASE Due \/ SetSerial
    BY <1>10 DEF Due, SetSerial
  <1>11. CASE Write
    <2>1. \/ UNCHANGED todo
          \/ /\ Client \in Clients /\ Current(Client).do = Command
             /\ todo'[Client] = Tail(todo[Client])
             /\ \A d \in Clients : d # Client => todo'[d] = todo[d]
      BY <1>11, WriteCases
    <2>2. CASE Client = "driver" /\ ~UNCHANGED todo
      <3>1. s.do = Command /\ Command \in {"LOG", "DEL"} /\ todo'["driver"] = Tail(todo["driver"])
        BY <1>0, <1>11, <2>1, <2>2, ClientFacts, WriteCases DEF Shape, ServedShape
      <3>2. n = 2
        BY <1>3, <1>4, <3>1 DEF Rewrites
      <3> QED BY <1>5, <1>11, <3>1, <3>2
    <2> QED BY <1>0, <2>1, <2>2
  <1>12. CASE Reply
    BY <1>0, <1>1, <1>12, ClientFacts DEF Reply
  <1>13. CASE \E o \in Builds : Built(o) \/ SentImport(o)
    BY <1>0, <1>1, <1>13, ClientFacts DEF Built, SentImport
  <1>14. CASE \E o \in Builds : FailedBuild(o) \/ SentBuild(o)
    BY <1>4, <1>14 DEF FailedBuild, SentBuild, Free
  <1>15. CASE \E e \in PyPIEvents : ReadPyPI(e)
    BY <1>0, <1>1, <1>15, ClientFacts DEF ReadPyPI
  <1>16. CASE \E r \in ChaseRequests : HandleImport(r)
    BY <1>0, <1>1, <1>16, ClientFacts DEF HandleImport
  <1>17. CASE Restart \/ Crash
    BY <1>0, <1>4, <1>17 DEF Restart, Crash, Good, Orderly
  <1>18. CASE UNCHANGED <<vars, world>>
    BY <1>18 DEF vars
  <1> QED BY <1>6, <1>7, <1>8, <1>9, <1>10, <1>11, <1>12, <1>13, <1>14, <1>15, <1>16, <1>17, <1>18
          DEF Next, Step, Over

-----------------------------------------------------------------------------
(* The wheels of a version that is removed go, also the one that a builder  *)
(* was about to send.                                                       *)

\* SlaveDriver builds none of what it was told to exclude.
Excluding ==
  Good => \A k : Noted(k) => \A b \in Covered(k) :
            b[1] \in late \/ (b \in excluded /\ b \notin sending)

\* A wheel belongs to a version.
WheelsKnown == Good => \A b \in wheels \cup sending : b \in db.vers \/ b[1] \in late

\* A wheel that is not logged yet will be.
WheelsLogged ==
  Good => \A b \in wheels \ db.files :
    \/ b[1] \in late
    \/ Building(b, TRUE, 3) /\ \A k : b \in Covered(k) => ~Noted(k)

\* Once the wheels of a removal are gone, none comes back, unless its build
\* was being logged, and is announced before the rows go.
WheelsLeave ==
  Good => \A k : Past(k) => \A b \in wheels \cap Covered(k) :
    \/ b[1] \in late
    \/ ~Noted(k) /\ \E status \in BOOLEAN, n \in 1..3 : Building(b, status, n)

Wheels == Acks /\ Excluding /\ WheelsKnown /\ WheelsLogged /\ WheelsLeave

LEMMA NotedStep ==
  ASSUME TypeInv, Shape, Acks, [Next]_<<vars, world>>, Good', NEW k, Noted(k)'
  PROVE  \/ Noted(k)
         \/ Exclude("gazer") /\ Current("gazer").key = k
  <1>0. Good /\ Orderly
    BY GoodBefore DEF Good
  <1>1. acked \subseteq {"gazer"} /\ (acked # {} => At(event.key, 2) \/ At(event.key, 3))
    BY <1>0 DEF Acks
  <1>2. PICK n \in 1..3 : At(k, n)' /\ (n # 1 => acked' # {})
    BY DEF Noted
  <1>3. n = 1 \/ n = 2 \/ n = 3
    OBVIOUS
  <1>4. CASE At(k, n) /\ UNCHANGED event /\ todo'["gazer"] = todo["gazer"]
    <2>1. CASE n = 1 \/ acked # {}
      BY <1>3, <1>4, <2>1 DEF Noted
    <2>2. CASE n # 1 /\ acked = {}
      <3>1. acked' # {}
        BY <1>2, <2>2
      <3>2. PICK c \in Clients : Exclude(c)
        BY <2>2, <3>1, DriverFrame
      <3>3. todo[c] # <<>> /\ Current(c).do \in {"DEL", "ack"}
        BY <3>2 DEF Exclude
      <3>4. c = "gazer"
        BY <1>0, <3>3, OrderlyCalls
      <3>5. Current("gazer") = Do("ack", k) \/ Current("gazer") = Do("DEL", k)
        BY <1>3, <1>4, <2>2, AtFacts
      <3>6. Current("gazer").key = k
        BY <3>5, DoFields
      <3> QED BY <3>2, <3>4, <3>6
    <2> QED BY <2>1, <2>2
  <1>5. CASE n = 3 /\ At(k, 4) /\ Transact("gazer")
    <2>1. acked = acked'
      BY <1>5, TransactEffect, ClientFacts
    <2>2. acked # {}
      BY <1>2, <1>5, <2>1
    <2>3. event.key = k
      BY <1>5 DEF At
    <2>4. At(k, 2) \/ At(k, 3)
      BY <1>1, <2>2, <2>3
    <2>5. 4 \in 0..4 /\ 3 \in 0..4 /\ 2 \in 0..4
      OBVIOUS
    <2> QED BY <1>5, <2>4, <2>5, AtFacts
  <1>6. CASE n = 2 /\ At(k, 3) /\ Write
    <2>1. acked = acked'
      BY <1>6, WriteCases
    <2> QED BY <1>2, <1>6, <2>1 DEF Noted
  <1>7. CASE n = 1 /\ At(k, 2) /\ Acked("gazer")
    BY <1>7 DEF Acked, Noted
  <1> QED BY <1>2, <1>4, <1>5, <1>6, <1>7, RemovalStep

LEMMA ExcludingStep ==
  ASSUME TypeInv, Shape, Acks, Excluding, [Next]_<<vars, world>>
  PROVE  Excluding'
  <1> SUFFICES ASSUME Good', NEW k, Noted(k)', NEW b \in Covered(k), b[1] \notin late'
               PROVE  b \in excluded' /\ b \notin sending'
    BY DEF Excluding, Covered, Covers
  <1>0. Good /\ Orderly
    BY GoodBefore DEF Good
  <1>1. CASE Noted(k)
    <2>1. b \in excluded /\ b \notin sending
      BY <1>0, <1>1, DriverFrame DEF Excluding
    <2>2. todo["gazer"] # <<>>
      <3>1. PICK n \in 1..3 : At(k, n)
        BY <1>1 DEF Noted
      <3>2. n \in 0..4 /\ n # 0
        OBVIOUS
      <3> QED BY <3>1, <3>2, AtFacts
    <2>3. excluded \subseteq excluded'
      <3>1. \A e \in PyPIEvents : ~ReadPyPI(e)
        BY <2>2 DEF ReadPyPI, Free
      <3>2. ~Restart /\ ~Crash
        BY <1>0, <2>2, ClientFacts DEF Restart, Crash, Orderly
      <3> QED BY <3>1, <3>2, DriverFrame
    <2>4. \A o \in Builds : Built(o) => o # b
      BY <2>1 DEF Built, Unbuilt
    <2> QED BY <2>1, <2>3, <2>4, DriverFrame
  <1>2. CASE Exclude("gazer") /\ Current("gazer").key = k
    BY <1>2 DEF Exclude
  <1> QED BY <1>1, <1>2, NotedStep

LEMMA KnownStep ==
  ASSUME TypeInv, Shape, Wheels, [Next]_<<vars, world>>
  PROVE  WheelsKnown'
  <1> SUFFICES ASSUME Good', NEW b \in wheels' \cup sending', b[1] \notin late' PROVE b \in db'.vers
    BY DEF WheelsKnown
  <1>0. Good /\ Orderly /\ b[1] \notin late
    BY GoodBefore, DriverFrame DEF Good
  <1>1. CASE b \in wheels \cup sending
    <2>1. b \in db.vers
      BY <1>0, <1>1 DEF Wheels, WheelsKnown
    <2>2. CASE b \notin db'.vers
      <3>1. PICK k : k = event.key
        OBVIOUS
      <3>2. At(k, 1) /\ b \in Covered(k)
        BY <1>0, <2>1, <2>2, <3>1, RowsStep
      <3>3. Noted(k) /\ Past(k)
        BY <3>2 DEF Noted, Past
      <3>4. b \notin sending
        BY <1>0, <3>2, <3>3 DEF Wheels, Excluding
      <3>5. b \notin wheels
        BY <1>0, <3>2, <3>3 DEF Wheels, WheelsLeave
      <3> QED BY <1>1, <3>4, <3>5
    <2> QED BY <2>2
  <1>2. CASE b \notin wheels \cup sending
    <2>1. CASE b \in sending'
      <3>1. Built(b)
        BY <1>2, <2>1, DriverFrame
      <3> QED BY <3>1 DEF Built, Unbuilt
    <2>2. CASE b \in wheels'
      <3>1. SentBuild(b) \/ SentImport(b)
        BY <1>2, <2>2, WheelStep
      <3>2. ~SentBuild(b)
        BY <1>2 DEF SentBuild
      <3>3. b \in db.files /\ UNCHANGED db
        BY <3>1, <3>2 DEF SentImport, Doomed
      <3> QED BY <3>3 DEF Shape, RowsNest
    <2> QED BY <2>1, <2>2
  <1> QED BY <1>1, <1>2

LEMMA LoggedStep ==
  ASSUME TypeInv, Shape, Wheels, [Next]_<<vars, world>>
  PROVE  WheelsLogged'
  <1> SUFFICES ASSUME Good', NEW b \in wheels', b \notin db'.files, b[1] \notin late'
               PROVE  Building(b, TRUE, 3)' /\ \A k : b \in Covered(k) => ~Noted(k)'
    BY DEF WheelsLogged, Covered, Covers
  <1>0. Good /\ Orderly /\ b[1] \notin late
    BY GoodBefore, DriverFrame DEF Good
  <1>1. CASE b \in wheels /\ b \notin db.files
    <2>1. Building(b, TRUE, 3) /\ \A k : b \in Covered(k) => ~Noted(k)
      BY <1>0, <1>1 DEF Wheels, WheelsLogged
    <2>2. todo["driver"] # <<>>
      <3>1. 3 \in 1..3 /\ TRUE \in BOOLEAN
        OBVIOUS
      <3> QED BY <2>1, <3>1, BuildingCurrent
    <2>3. ~Exclude("gazer")
      BY <2>2 DEF Exclude, Free
    <2>4. \A k : b \in Covered(k) => ~Noted(k)'
      BY <2>1, <2>3, NotedStep DEF Wheels
    <2>5. CASE todo'["driver"] = todo["driver"]
      BY <2>1, <2>4, <2>5 DEF Building
    <2>6. CASE db' = Executed(LogBuild(b, TRUE))
      <3> DEFINE s == LogBuild(b, TRUE)
      <3>1. s.do = "logged" /\ s.key = b
        BY DoFields DEF LogBuild
      <3>2. b \in Keys /\ RowsOK
        BY <1>1, KeyFacts DEF TypeInv, PagesOK
      <3>3. b \in db'.files
        <4> HIDE DEF s
        <4>1. db' = Executed(s)
          BY <2>6 DEF s
        <4>2. db'.files = db.files \cup {b}
          BY <3>1, <3>2, <4>1, RowChanges
        <4> QED BY <4>2
      <3> QED BY <3>3
    <2>7. todo'["driver"] = todo["driver"] \/ db' = Executed(LogBuild(b, TRUE))
      <3>1. 3 \in 1..3 /\ TRUE \in BOOLEAN /\ 3 # 2 /\ 3 # 1
        OBVIOUS
      <3> QED BY <1>0, <2>1, <3>1, DriverMoves
    <2> QED BY <2>5, <2>6, <2>7
  <1>2. CASE b \in wheels /\ b \in db.files
    <2>1. PICK k : k = event.key
      OBVIOUS
    <2>2. At(k, 1) /\ b \in Covered(k)
      BY <1>0, <1>2, <2>1, RowsStep
    <2>3. Noted(k) /\ Past(k)
      BY <2>2 DEF Noted, Past
    <2> QED BY <1>0, <1>2, <2>2, <2>3 DEF Wheels, WheelsLeave
  <1>3. CASE b \notin wheels
    <2>1. SentBuild(b) \/ SentImport(b)
      BY <1>3, WheelStep
    <2>2. ~SentImport(b)
      BY DEF SentImport, Doomed
    <2>3. SentBuild(b) /\ b \in sending /\ b \in Builds /\ UNCHANGED acked
      BY <2>1, <2>2 DEF SentBuild, TypeInv, TasksOK
    <2>4. Building(b, TRUE, 3)'
      <3>1. Then("driver", <<LogBuild(b, TRUE), Do("LOG", b)>> \o Rewrite("BOTH", b))
        BY <2>3 DEF SentBuild
      <3>2. todo'["driver"] = <<LogBuild(b, TRUE), Do("LOG", b)>> \o Rewrite(News(TRUE), b)
        BY <3>1, ThenTodo, ClientFacts DEF TypeInv, ScriptsOK, News
      <3> QED BY <3>2, BuildRestSteps DEF Building
    <2>5. ~Exclude("gazer")
      BY <2>3 DEF Exclude
    <2>6. \A k : b \in Covered(k) => ~Noted(k)
      BY <1>0, <2>3 DEF Wheels, Excluding
    <2>7. \A k : b \in Covered(k) => ~Noted(k)'
      BY <2>5, <2>6, NotedStep DEF Wheels
    <2> QED BY <2>4, <2>7
  <1> QED BY <1>1, <1>2, <1>3

\* How the wheels of a removal come to be gone.
LEMMA PastStep ==
  ASSUME TypeInv, Shape, [Next]_<<vars, world>>, Good', NEW k, Past(k)'
  PROVE  \/ Past(k)
         \/ At(k, 3) /\ Write /\ wheels' = wheels \ (Covered(k) \cap db.files)
              /\ todo'["driver"] = todo["driver"]
  <1>0. Good /\ Orderly
    BY GoodBefore DEF Good
  <1>a. 3 \in 1..3 /\ 2 \in 1..3 /\ 1 \in 1..3 /\ 3 # 2 /\ 3 # 1 /\ 2 # 1
    OBVIOUS
  <1>1. CASE At(k, 1)'
    <2>1. At(k, 1) \/ At(k, 2)
      BY <1>a, <1>1, RemovalStep
    <2> QED BY <2>1 DEF Past
  <1>2. CASE At(k, 2)'
    <2>1. CASE At(k, 2)
      BY <2>1 DEF Past
    <2>2. CASE At(k, 3) /\ Write /\ ~Idle /\ Idle' /\ Client = "gazer" /\ Command = "DEL" /\ Key = k
      <3>1. CASE stage # "start"
        BY <2>2, <3>1 DEF Past, Del
      <3>2. CASE stage = "start"
        <4>1. DeletePackage
          <5>1. ~DeleteVersion /\ ~GetData
            BY <2>2, <3>2 DEF DeleteVersion, GetData, secretaryVars, Idle, Rewrites
          <5> QED BY <2>2, <3>2, <5>1, WriteCases DEF WritePages, WriteLog
        <4>2. wheels' = wheels \ (Covered(k) \cap db.files)
          BY <2>2, <4>1 DEF DeletePackage
        <4>3. todo'["driver"] = todo["driver"]
          BY <2>2, WriteCases, ClientFacts
        <4> QED BY <2>2, <4>2, <4>3
      <3> QED BY <3>1, <3>2
    <2> QED BY <1>a, <1>2, <2>1, <2>2, RemovalStep
  <1>3. CASE At(k, 3)' /\ Del(k)' /\ stage' # "start"
    <2>1. \/ At(k, 3) /\ UNCHANGED event /\ todo'["gazer"] = todo["gazer"]
          \/ At(k, 4) /\ Transact("gazer")
      BY <1>a, <1>3, RemovalStep
    <2>2. ~Idle' /\ Command' = "DEL" /\ Key' = k
      BY <1>3 DEF Del
    <2>3. UNCHANGED serving \/ \E c \in Clients : Ask(c)
      BY <2>2, ServingStep DEF Rewrites
    <2>4. ASSUME NEW c \in Clients, Ask(c) PROVE FALSE
      <3>1. Idle /\ stage' = stage
        BY <2>4 DEF Ask, HandleInput, scribeVars
      <3> QED BY <1>3, <3>1, StageFacts DEF TypeInv
    <2>5. ~Idle /\ Command = "DEL" /\ Key = k
      BY <2>2, <2>3, <2>4 DEF Idle, Command, Key
    <2>6. At(k, 3)
      <3>1. At(Key, 3)
        BY <1>0, <2>5, OrderlyDel
      <3> QED BY <2>5, <3>1
    <2>7. CASE stage # "start"
      BY <2>5, <2>6, <2>7 DEF Past, Del
    <2>8. CASE stage = "start"
      <3>1. Write
        <4>1. stage' # stage
          BY <1>3, <2>8
        <4>2. ASSUME NEW c \in Clients, Transact(c) \/ Ask(c) \/ Exclude(c) \/ Acked(c) PROVE FALSE
          BY <4>1, <4>2 DEF Transact, Ask, Exclude, Acked, webVars, scribeVars
        <4>3. ~Due /\ ~SetSerial /\ ~Reply
          BY <4>1 DEF Due, SetSerial, Reply, webVars, scribeVars
        <4>4. ASSUME NEW b \in Builds, Built(b) \/ FailedBuild(b) \/ SentBuild(b) \/ SentImport(b) PROVE FALSE
          BY <4>1, <4>4 DEF Built, FailedBuild, SentBuild, SentImport, webVars, scribeVars
        <4>5. ASSUME NEW e \in PyPIEvents, ReadPyPI(e) PROVE FALSE
          BY <4>1, <4>5 DEF ReadPyPI, webVars, scribeVars
        <4>6. ASSUME NEW r \in ChaseRequests, HandleImport(r) PROVE FALSE
          BY <4>1, <4>6 DEF HandleImport, webVars, scribeVars
        <4>7. ~Restart /\ ~Crash
          BY <1>3 DEF Restart, Crash, Start, ScribeOnce
        <4>8. ~UNCHANGED <<vars, world>> /\ ~Over
          BY <4>1 DEF vars, webVars, scribeVars, Over
        <4> QED BY <4>2, <4>3, <4>4, <4>5, <4>6, <4>7, <4>8 DEF Next, Step
      <3>2. DeleteVersion
        <4>1. ~GetData
          BY <2>5, <2>8 DEF GetData, Rewrites
        <4> QED BY <2>2, <3>1, <4>1, WriteCases
      <3>3. wheels' = wheels \ (Covered(k) \cap db.files)
        BY <2>5, <3>2 DEF DeleteVersion
      <3>4. todo'["driver"] = todo["driver"]
        BY <2>2, <3>1, WriteCases
      <3> QED BY <2>6, <3>1, <3>3, <3>4
    <2> QED BY <2>7, <2>8
  <1> QED BY <1>1, <1>2, <1>3 DEF Past

LEMMA LeaveStep ==
  ASSUME TypeInv, Shape, Wheels, [Next]_<<vars, world>>
  PROVE  WheelsLeave'
  <1> SUFFICES ASSUME Good', NEW k, Past(k)', NEW b \in wheels', b \in Covered(k), b[1] \notin late'
               PROVE  ~Noted(k)' /\ \E status \in BOOLEAN, n \in 1..3 : Building(b, status, n)'
    BY DEF WheelsLeave, Covered, Covers
  <1>0. Good /\ Orderly /\ b[1] \notin late
    BY GoodBefore, DriverFrame DEF Good
  <1>a. 3 \in 1..3 /\ TRUE \in BOOLEAN /\ 2 \in 1..3 /\ 1 \in 1..3
    OBVIOUS
  <1>b. Acks /\ (Noted(k)' => Noted(k) \/ Exclude("gazer"))
    BY NotedStep DEF Wheels
  <1>1. CASE b \notin wheels
    <2>1. SentBuild(b) \/ SentImport(b)
      BY <1>1, WheelStep
    <2>2. CASE SentBuild(b)
      <3>1. b \in sending /\ b \in Builds /\ UNCHANGED acked
        BY <2>2 DEF SentBuild, TypeInv, TasksOK
      <3>2. Building(b, TRUE, 3)'
        <4>1. Then("driver", <<LogBuild(b, TRUE), Do("LOG", b)>> \o Rewrite("BOTH", b))
          BY <2>2 DEF SentBuild
        <4>2. todo'["driver"] = <<LogBuild(b, TRUE), Do("LOG", b)>> \o Rewrite(News(TRUE), b)
          BY <4>1, ThenTodo, ClientFacts DEF TypeInv, ScriptsOK, News
        <4> QED BY <4>2, BuildRestSteps DEF Building
      <3>3. ~Exclude("gazer")
        BY <3>1 DEF Exclude
      <3>4. ~Noted(k)
        BY <1>0, <3>1 DEF Wheels, Excluding
      <3> QED BY <1>a, <1>b, <3>2, <3>3, <3>4
    <2>3. CASE SentImport(b)
      <3>1. ~Doomed(b) /\ UNCHANGED <<db, acked, gazerVars, stage, serving>>
        BY <2>3 DEF SentImport, secretaryVars
      <3>2. todo'["gazer"] = todo["gazer"]
        BY <2>3, ThenTodo, ClientFacts DEF SentImport, TypeInv, ScriptsOK
      <3>3. Past(k)
        BY <3>1, <3>2 DEF Past, At, Del, gazerVars, Idle, Command, Key
      <3>4. PICK i \in 1..Len(todo["gazer"]) :
              todo["gazer"][i].do = "delete" /\ todo["gazer"][i].key = k
        BY <3>3, PastRemoves
      <3>5. Covers(k, b)
        BY DEF Covered
      <3> QED BY <3>1, <3>4, <3>5, ClientFacts DEF Doomed
    <2> QED BY <2>1, <2>2, <2>3
  <1>2. CASE b \in wheels /\ Past(k)
    <2>1. PICK status \in BOOLEAN, n \in 1..3 : ~Noted(k) /\ Building(b, status, n)
      BY <1>0, <1>2 DEF Wheels, WheelsLeave
    <2>2. todo["driver"] # <<>>
      BY <2>1, BuildingCurrent
    <2>3. ~Exclude("gazer")
      BY <2>2 DEF Exclude, Free
    <2>4. ~Noted(k)'
      BY <1>b, <2>1, <2>3
    <2>5. CASE todo'["driver"] = todo["driver"]
      BY <2>1, <2>4, <2>5 DEF Building
    <2>6. CASE Building(b, status, 2)' \/ Building(b, status, 1)'
      BY <1>a, <2>4, <2>6
    <2>7. CASE Idle /\ (Gone(b[1]) => b[1] \in late')
      <3>1. At(k, 1) \/ At(k, 2)
        BY <1>2, <2>7 DEF Past, Del
      <3>2. b[1] = k[1]
        BY DEF Covered, Covers
      <3>3. Removing("gazer") /\ BusyWith("gazer", k[1])
        BY <3>1, RemovingFacts
      <3>4. Gone(b[1])
        BY <3>2, <3>3, ClientFacts DEF Gone
      <3> QED BY <2>7, <3>4
    <2> QED BY <1>0, <2>1, <2>5, <2>6, <2>7, DriverMoves
  <1>3. CASE b \in wheels /\ At(k, 3) /\ Write /\ wheels' = wheels \ (Covered(k) \cap db.files)
               /\ todo'["driver"] = todo["driver"]
    <2>1. b \notin db.files
      BY <1>3
    <2>2. Building(b, TRUE, 3) /\ ~Noted(k)
      BY <1>0, <1>3, <2>1 DEF Wheels, WheelsLogged
    <2>3. Building(b, TRUE, 3)'
      BY <1>3, <2>2 DEF Building
    <2>4. ~Exclude("gazer")
      BY <1>3, WriteCases DEF Exclude
    <2> QED BY <1>a, <1>b, <2>2, <2>3, <2>4
  <1> QED BY <1>1, <1>2, <1>3, PastStep

LEMMA WheelsInit == Init => Wheels
  <1> SUFFICES ASSUME Init PROVE Wheels
    OBVIOUS
  <1>1. acked = {} /\ event.action = "none" /\ wheels = {} /\ sending = {}
    BY DEF Init, ScribeInit, NoEvent
  <1>2. \A k, n : ~At(k, n)
    BY <1>1 DEF At
  <1> QED BY <1>1, <1>2 DEF Wheels, Acks, Excluding, WheelsKnown, WheelsLogged, WheelsLeave, Noted, Past

LEMMA WheelsStep == TypeInv /\ Shape /\ Wheels /\ [Next]_<<vars, world>> => Wheels'
  <1> SUFFICES ASSUME TypeInv, Shape, Wheels, [Next]_<<vars, world>> PROVE Wheels'
    OBVIOUS
  <1>1. Acks' /\ Excluding'
    BY AcksStep, ExcludingStep DEF Wheels
  <1>2. WheelsKnown' /\ WheelsLogged' /\ WheelsLeave'
    BY KnownStep, LoggedStep, LeaveStep
  <1> QED BY <1>1, <1>2 DEF Wheels

\* A version that PyPI has removed leaves no wheel behind, whatever builds,
\* imports, other events and restarts come between the statements of its
\* removal: a build that was finished before SlaveDriver was told is logged and
\* announced before the rows go, and none is begun afterwards.
THEOREM WheelsGo == Spec => []RemovedWheelsGo
  <1>1. Spec => [](TypeInv /\ Shape /\ Wheels)
    <2>1. Init => TypeInv /\ Shape /\ Wheels
      BY TypeInit, ShapeInit, WheelsInit
    <2>2. TypeInv /\ Shape /\ Wheels /\ [Next]_<<vars, world>> => (TypeInv /\ Shape /\ Wheels)'
      BY TypeStep, ShapeStep, WheelsStep
    <2> QED BY <2>1, <2>2, PTL DEF Spec
  <1>2. TypeInv /\ Shape /\ Wheels => RemovedWheelsGo
    BY DEF Wheels, WheelsKnown, RemovedWheelsGo, Settled, Good, Up
  <1> QED BY <1>1, <1>2, PTL

-----------------------------------------------------------------------------
(* What a simple page offers is there, where nothing is imported.           *)

\* Only TheScribe changes the pages.
LEMMA PagesStep ==
  ASSUME [Next]_<<vars, world>>
  PROVE  \/ Write \/ Restart \/ Crash
         \/ /\ UNCHANGED <<stage, data, simple, project, index, cache>>
            /\ ~Idle => UNCHANGED serving
  <1>1. CASE \E c \in Clients : Transact(c) \/ Ask(c) \/ Exclude(c) \/ Acked(c)
    BY <1>1, ZenonT(40) DEF Transact, Ask, HandleInput, Exclude, Acked, webVars, scribeVars, secretaryVars
  <1>2. CASE Due \/ SetSerial \/ Reply
    BY <1>2 DEF Due, HandleOutput, SetSerial, Reply, webVars, scribeVars, secretaryVars
  <1>3. CASE \E b \in Builds : Built(b) \/ FailedBuild(b) \/ SentBuild(b) \/ SentImport(b)
    BY <1>3 DEF Built, FailedBuild, SentBuild, SentImport, webVars, scribeVars, secretaryVars
  <1>4. CASE (\E e \in PyPIEvents : ReadPyPI(e)) \/ (\E r \in ChaseRequests : HandleImport(r))
    BY <1>4 DEF ReadPyPI, HandleImport, webVars, scribeVars, secretaryVars
  <1>5. CASE UNCHANGED <<vars, world>>
    BY <1>5 DEF vars, webVars, scribeVars, secretaryVars
  <1> QED BY <1>1, <1>2, <1>3, <1>4, <1>5 DEF Next, Step, Over

LEMMA PastGoesOn ==
  ASSUME TypeInv, Shape, Good, [Next]_<<vars, world>>, NEW k, Past(k)
  PROVE  Past(k)' \/ (Transact("gazer") /\ db' = Without(k))
  <1>0. Orderly
    BY DEF Good
  <1>a. 3 \in 1..3 /\ 2 \in 1..3 /\ 1 \in 1..3 /\ 3 # 2 /\ 3 # 1 /\ 2 # 1
    OBVIOUS
  <1>1. CASE At(k, 1)
    <2>1. At(k, 1)' \/ (Transact("gazer") /\ db' = Without(k))
      BY <1>0, <1>1, <1>a, RemovalGoesOn
    <2> QED BY <2>1 DEF Past
  <1>2. CASE At(k, 2)
    <2>1. At(k, 2)' \/ At(k, 1)'
      BY <1>0, <1>2, <1>a, RemovalGoesOn
    <2> QED BY <2>1 DEF Past
  <1>3. CASE At(k, 3) /\ Del(k) /\ stage # "start"
    <2>1. At(k, 2)' \/ (At(k, 3)' /\ todo'["gazer"] = todo["gazer"])
      BY <1>0, <1>3, <1>a, RemovalGoesOn
    <2>2. ~Idle /\ Command = "DEL" /\ Key = k /\ Client = "gazer"
      BY <1>0, <1>3, OrderlyDel DEF Del
    <2>3. todo["gazer"] # <<>> /\ Tail(todo["gazer"]) # todo["gazer"]
      <3>1. todo["gazer"] = Rest(k, 3) /\ Tail(Rest(k, 3)) = Rest(k, 2)
        <4>1. 3 \in 1..4 /\ 3 - 1 = 2
          OBVIOUS
        <4> QED BY <1>3, <4>1, RestSteps DEF At
      <3>2. Len(Rest(k, 3)) = 3 /\ Len(Rest(k, 2)) = 2
        BY RestSteps
      <3> QED BY <3>1, <3>2
    <2>4. CASE At(k, 3)' /\ todo'["gazer"] = todo["gazer"]
      <3>1. ~Restart /\ ~Crash
        BY <1>0, <2>3, ClientFacts DEF Restart, Crash, Orderly
      <3>2. CASE Write
        <4>1. ~Idle'
          BY <2>2, <2>3, <2>4, <3>2, ClientFacts DEF Write, Client, Then, TypeInv, ScriptsOK
        <4>2. GetData
          BY <1>3, <3>2, <4>1, WriteCases DEF DeleteVersion
        <4>3. UNCHANGED serving /\ stage' = "write"
          BY <4>2 DEF GetData, secretaryVars
        <4> QED BY <2>2, <2>4, <4>3 DEF Past, Del, Idle, Command, Key
      <3>3. CASE UNCHANGED <<serving, stage>>
        BY <1>3, <2>4, <3>3 DEF Past, Del, Idle, Command, Key
      <3> QED BY <2>2, <3>1, <3>2, <3>3, PagesStep
    <2>5. CASE At(k, 2)'
      BY <2>5 DEF Past
    <2> QED BY <2>1, <2>4, <2>5
  <1> QED BY <1>1, <1>2, <1>3 DEF Past

Unimported == Good /\ "piw-import" \notin world.requests

\* A build that is logged has its wheel, until it is removed.
FilesStored ==
  Unimported => \A b \in db.files : b \in wheels \/ \E k : Past(k) /\ Covers(k, b)

\* A build is logged after its wheel is stored, and once.
StoredFirst ==
  Unimported =>
    /\ sending \cap db.files = {}
    /\ \A b \in Builds : Building(b, TRUE, 3) =>
         b \in wheels /\ b \notin db.files /\ b \notin sending

\* TheScribe writes what is there.
ReadStored ==
  Unimported /\ stage = "write" =>
    \A r \in data : r.status = "success" => <<Target, r.ver>> \in wheels

Offers(p, v) == simple[p] # NoPage /\ \E y \in BOOLEAN : <<v, y>> \in simple[p]

Stores == Calm /\ FilesStored /\ StoredFirst /\ ReadStored

LEMMA UnimportedBefore ==
  ASSUME [Next]_<<vars, world>>, Unimported'
  PROVE  Unimported /\ Good /\ Orderly /\ UNCHANGED world
  BY GoodBefore DEF Unimported, Good, Next

\* Under no import, a build is logged by SlaveDriver.
LEMMA LoggedByDriver ==
  ASSUME TypeInv, Shape, Unimported, [Next]_<<vars, world>>, NEW b, b \notin db.files, b \in db'.files
  PROVE  Transact("driver") /\ Building(b, TRUE, 3)
  <1>1. PICK c \in Clients : /\ Transact(c) /\ todo[c] # <<>>
                             /\ Current(c).do = "logged" /\ Current(c).key = b
    BY RowsStep DEF Unimported, Good
  <1>2. c = "driver"
    BY <1>1, OrderlyCalls DEF Unimported, Good
  <1>3. PICK o \in Builds, status \in BOOLEAN, n \in 1..3 : Building(o, status, n)
    BY <1>1, <1>2 DEF Shape, DriverShape
  <1>4. n = 1 \/ n = 2 \/ n = 3
    OBVIOUS
  <1>5. n = 3 /\ status = TRUE
    BY <1>1, <1>2, <1>3, <1>4, BuildingCurrent DEF News
  <1>6. Current("driver") = LogBuild(o, TRUE)
    BY <1>3, <1>5, BuildingCurrent
  <1>7. o = b
    BY <1>1, <1>2, <1>6, DoFields DEF LogBuild
  <1> QED BY <1>1, <1>2, <1>3, <1>5, <1>7

LEMMA FilesStoredStep ==
  ASSUME TypeInv, Shape, Stores, [Next]_<<vars, world>>
  PROVE  FilesStored'
  <1> SUFFICES ASSUME Unimported', NEW b \in db'.files
               PROVE  b \in wheels' \/ \E k : Past(k)' /\ Covers(k, b)
    BY DEF FilesStored, Covers
  <1>0. Unimported /\ Good /\ Orderly
    BY UnimportedBefore
  <1>1. CASE b \notin db.files
    <2>1. Transact("driver") /\ Building(b, TRUE, 3)
      BY <1>0, <1>1, LoggedByDriver
    <2>2. b \in Builds
      <3>1. RowsOK'
        BY TypeStep DEF TypeInv
      <3> QED BY <3>1 DEF RowsOK, CatalogueTypeOK
    <2>3. b \in wheels
      BY <1>0, <2>1, <2>2 DEF Stores, StoredFirst
    <2>4. UNCHANGED wheels
      BY <2>1 DEF Transact, webVars, scribeVars
    <2> QED BY <2>3, <2>4
  <1>2. CASE b \in db.files /\ b \in wheels
    <2>1. CASE b \notin wheels'
      <3>1. /\ Write /\ ~Idle /\ Command = "DEL" /\ stage = "start"
            /\ DeleteVersion \/ DeletePackage
            /\ b \in Covered(Key)
        BY <1>2, <2>1, WheelStep
      <3>2. Client = "gazer" /\ At(Key, 3)
        BY <1>0, <3>1, OrderlyDel
      <3>k. PICK k : k = Key
        OBVIOUS
      <3>3. At(k, 3) /\ Covers(k, b)
        BY <3>1, <3>2, <3>k DEF Covered
      <3>4. At(k, 2)' \/ (At(k, 3)' /\ todo'["gazer"] = todo["gazer"])
        <4>1. 3 \in 1..3 /\ 3 # 2 /\ 3 # 1
          OBVIOUS
        <4> QED BY <1>0, <3>3, <4>1, RemovalGoesOn
      <3>5. CASE At(k, 2)'
        BY <3>3, <3>5 DEF Past
      <3>6. CASE At(k, 3)' /\ todo'["gazer"] = todo["gazer"]
        <4>1. Tail(todo["gazer"]) # todo["gazer"]
          <5>1. todo["gazer"] = Rest(k, 3) /\ Tail(Rest(k, 3)) = Rest(k, 2)
            <6>1. 3 \in 1..4 /\ 3 - 1 = 2
              OBVIOUS
            <6> QED BY <3>3, <6>1, RestSteps DEF At
          <5>2. Len(Rest(k, 3)) = 3 /\ Len(Rest(k, 2)) = 2
            BY RestSteps
          <5> QED BY <5>1, <5>2
        <4>2. ~Idle'
          BY <3>1, <3>2, <3>6, <4>1, ClientFacts DEF Write, Client, Then, TypeInv, ScriptsOK
        <4>3. DeleteVersion
          BY <3>1, <4>2 DEF DeletePackage, HandleDone, Idle
        <4>4. UNCHANGED serving /\ stage' = "read"
          BY <4>3 DEF DeleteVersion, secretaryVars
        <4> QED BY <3>1, <3>3, <3>6, <3>k, <4>4 DEF Past, Del, Idle, Command, Key
      <3> QED BY <3>4, <3>5, <3>6
    <2> QED BY <2>1
  <1>3. CASE b \in db.files /\ b \notin wheels
    <2>1. PICK k : Past(k) /\ Covers(k, b)
      BY <1>0, <1>3 DEF Stores, FilesStored
    <2>2. ~(db' = Without(k))
      <3>1. b \in Covered(k) /\ RowsOK
        BY <1>3, <2>1, RowFacts DEF TypeInv, Covered
      <3>2. ASSUME db' = Without(k) PROVE b \notin db'.files
        <4> DEFINE s == Do("delete", k)
        <4>1. s.do = "delete" /\ s.key = k
          BY DoFields
        <4>2. k \in Keys
          BY <2>1, AtKeys DEF Past
        <4>3. db' = Executed(s)
          BY <3>2, <4>1 DEF Executed
        <4> HIDE DEF s
        <4>4. db'.files = db.files \ Covered(k)
          BY <3>1, <4>1, <4>2, <4>3, RowChanges
        <4> QED BY <3>1, <4>4
      <3> QED BY <3>2
    <2>3. Past(k)'
      BY <1>0, <2>1, <2>2, PastGoesOn
    <2> QED BY <2>1, <2>3
  <1> QED BY <1>1, <1>2, <1>3

LEMMA TailDiffers ==
  ASSUME NEW S, NEW s \in Seq(S), s # <<>> PROVE Tail(s) # s
  <1>1. Len(Tail(s)) = Len(s) - 1 /\ Len(s) \in Nat
    OBVIOUS
  <1>2. PICK t : t = Tail(s)
    OBVIOUS
  <1>3. Len(t) = Len(s) - 1 /\ Len(s) \in Nat
    BY <1>1, <1>2
  <1>4. Len(t) # Len(s)
    BY <1>3
  <1>5. t # s
    BY <1>4
  <1> QED BY <1>2, <1>5

LEMMA LogBuildFields ==
  ASSUME NEW b
  PROVE  /\ LogBuild(b, TRUE).do = "logged" /\ LogBuild(b, TRUE).key = b
         /\ LogBuild(b, FALSE).do = "failed" /\ LogBuild(b, FALSE).key = b
  BY DEF LogBuild, Do, Test

\* A build is logged after it was sent.
LEMMA BuildingStarts ==
  ASSUME TypeInv, Shape, Good, Good', [Next]_<<vars, world>>, NEW b \in Builds,
         Building(b, TRUE, 3)', todo'["driver"] # todo["driver"]
  PROVE  SentBuild(b)
  <1> SUFFICES ASSUME ~SentBuild(b) PROVE FALSE
    OBVIOUS
  <1>b. 3 \in 1..3 /\ TRUE \in BOOLEAN /\ FALSE \in BOOLEAN
    OBVIOUS
  <1>1. todo'["driver"] # <<>> /\ Current("driver")' = LogBuild(b, TRUE)
        /\ LogBuild(b, TRUE).do = "logged" /\ LogBuild(b, TRUE).key = b
    <2>1. todo'["driver"] = BuildRest(b, TRUE, 3)
      BY DEF Building
    <2>2. Current("driver")' = LogBuild(b, TRUE)
      BY <1>b, <2>1, BuildRestSteps DEF Current
    <2>3. todo'["driver"] # <<>>
      BY <1>b, <2>1, BuildRestSteps
    <2> QED BY <2>2, <2>3, LogBuildFields
  <1>2. CASE todo["driver"] # <<>>
    <2>1. PICK o \in Builds, status \in BOOLEAN, n \in 1..3 : Building(o, status, n)
      BY <1>2 DEF Shape, DriverShape
    <2>2. \/ Building(o, status, 2)'
          \/ Building(o, status, 1)'
          \/ n = 1 /\ Ask("driver")
      BY <2>1, DriverMoves
    <2>3. CASE Building(o, status, 2)' \/ Building(o, status, 1)'
      <3>1. Current("driver")' \in {Do("LOG", o), Do(News(status), Package(o[1]))}
        BY <2>3, BuildRestSteps DEF Building, Current
      <3>2. Do("LOG", o).do = "LOG" /\ Do(News(status), Package(o[1])).do = News(status)
        BY DoFields
      <3> QED BY <1>1, <3>1, <3>2 DEF News
    <2>4. CASE n = 1 /\ Ask("driver")
      <3>1. todo'["driver"] = Tail(todo["driver"])
        BY <2>4, ThenTodo, ClientFacts DEF Ask, TypeInv, ScriptsOK
      <3>2. todo'["driver"] = <<>>
        BY <2>1, <2>4, <3>1, BuildRestSteps DEF Building
      <3> QED BY <1>1, <3>2
    <2> QED BY <2>2, <2>3, <2>4
  <1>3. CASE todo["driver"] = <<>>
    <2>1. PICK o \in Builds : FailedBuild(o) \/ SentBuild(o)
      <3>0. DOMAIN todo = Clients /\ "gazer" \in Clients /\ "chase" \in Clients /\ "driver" \in Clients
        BY ClientFacts DEF TypeInv, ScriptsOK
      <3>1. \A c \in Clients : \A x : c # "driver" /\ Then(c, x) => todo'["driver"] = todo["driver"]
        BY <3>0, ThenTodo
      <3>2. ASSUME NEW c \in Clients, Transact(c) PROVE FALSE
        BY <1>3, <3>0, <3>2, TransactEffect
      <3>3. ASSUME NEW c \in Clients, Ask(c) \/ Exclude(c) \/ Acked(c) PROVE FALSE
        BY <1>3, <3>1, <3>3 DEF Ask, Asks, Exclude, Acked
      <3>4. ~Due /\ ~SetSerial /\ ~Reply
        BY <3>0, <3>1, ClientFacts DEF Due, SetSerial, Reply
      <3>5. ~Write
        BY <1>3, <3>0, WriteCases
      <3>6. \A r \in ChaseRequests : ~HandleImport(r)
        BY <3>0, <3>1, ClientFacts DEF HandleImport
      <3>7. \A e \in PyPIEvents : ~ReadPyPI(e)
        BY <3>0, <3>1, ClientFacts DEF ReadPyPI
      <3>8. \A o \in Builds : ~Built(o) /\ ~SentImport(o)
        BY <3>0, <3>1, ClientFacts DEF Built, SentImport
      <3>9. ~Restart /\ ~Crash
        <4>1. ASSUME Restart \/ Crash PROVE todo'["driver"] = <<>>
          BY <3>0, <4>1, ClientFacts DEF Restart, Crash, Start
        <4> QED BY <1>3, <4>1
      <3>10. ~UNCHANGED <<vars, world>> /\ ~Over
        BY DEF vars, Over
      <3> QED BY <3>2, <3>3, <3>4, <3>5, <3>6, <3>7, <3>8, <3>9, <3>10 DEF Next, Step
    <2>2. PICK status \in BOOLEAN :
            /\ todo'["driver"] = BuildRest(o, status, 3)
            /\ status = TRUE => SentBuild(o)
      <3>1. \A x : Then("driver", x) => todo'["driver"] = x
        BY ThenTodo, ClientFacts DEF TypeInv, ScriptsOK
      <3>2. CASE FailedBuild(o)
        BY <1>b, <3>1, <3>2, BuildRestSteps DEF FailedBuild, News
      <3>3. CASE SentBuild(o)
        BY <1>b, <3>1, <3>3, BuildRestSteps DEF SentBuild, News
      <3> QED BY <2>1, <3>2, <3>3
    <2>3. Current("driver")' = LogBuild(o, status)
      BY <2>2, BuildRestSteps DEF Current
    <2>4. LogBuild(o, status).do = (IF status THEN "logged" ELSE "failed") /\ LogBuild(o, status).key = o
      BY DoFields DEF LogBuild
    <2>5. status = TRUE /\ o = b
      BY <1>1, <2>3, <2>4
    <2> QED BY <2>2, <2>5
  <1> QED BY <1>2, <1>3

LEMMA StoredFirstStep ==
  ASSUME TypeInv, Shape, Stores, [Next]_<<vars, world>>
  PROVE  StoredFirst'
  <1> SUFFICES ASSUME Unimported'
               PROVE  /\ sending' \cap db'.files = {}
                      /\ \A b \in Builds : Building(b, TRUE, 3)' =>
                           b \in wheels' /\ b \notin db'.files /\ b \notin sending'
    BY DEF StoredFirst
  <1>0. Unimported /\ Good /\ Orderly /\ Good'
    BY UnimportedBefore DEF Unimported
  <1>a. /\ sending \cap db.files = {}
        /\ \A b \in Builds : Building(b, TRUE, 3) =>
             b \in wheels /\ b \notin db.files /\ b \notin sending
    BY <1>0 DEF Stores, StoredFirst
  <1>b. 3 \in 1..3 /\ TRUE \in BOOLEAN /\ FALSE \in BOOLEAN
    OBVIOUS
  <1>1. ASSUME NEW b \in sending', b \in db'.files PROVE FALSE
    <2>1. CASE b \in sending /\ b \notin db.files
      <3>1. Building(b, TRUE, 3)
        BY <1>0, <1>1, <2>1, LoggedByDriver
      <3>2. b \in Builds
        BY <2>1 DEF TypeInv, TasksOK
      <3> QED BY <1>a, <2>1, <3>1, <3>2
    <2>2. CASE b \notin sending
      <3>1. Built(b)
        BY <1>1, <2>2, DriverFrame
      <3> QED BY <1>1, <3>1 DEF Built, Unbuilt
    <2> QED BY <1>a, <2>1, <2>2
  <1>2. ASSUME NEW b \in Builds, Building(b, TRUE, 3)'
        PROVE  b \in wheels' /\ b \notin db'.files /\ b \notin sending'
    <2>1. CASE todo'["driver"] = todo["driver"]
      <3>1. Building(b, TRUE, 3) /\ todo["driver"] # <<>>
        BY <1>b, <1>2, <2>1, BuildingCurrent DEF Building
      <3>2. b \in wheels /\ b \notin db.files /\ b \notin sending
        BY <1>a, <3>1
      <3>3. b \in wheels'
        BY <3>2, WheelStep
      <3>4. b \notin db'.files
        <4>1. ~Transact("driver")
          <5>1. ASSUME Transact("driver") PROVE FALSE
            <6>1. todo'["driver"] = <<>> \/ todo'["driver"] = Following(Current("driver")) \o Tail(todo["driver"])
              BY <5>1, TransactEffect, ClientFacts
            <6>2. Following(Current("driver")) = <<>>
              <7>1. Current("driver") = LogBuild(b, TRUE)
                BY <3>1, BuildingCurrent
              <7> QED BY <7>1, PlainFollowing, DoFields DEF LogBuild
            <6>3. Tail(todo["driver"]) \in Seq(Statements("driver"))
              BY <3>1, CurrentType, ClientFacts DEF TypeInv, Doer
            <6>4. todo'["driver"] = Tail(todo["driver"])
              BY <2>1, <3>1, <6>1, <6>2, <6>3, EmptyConcat
            <6>5. Tail(todo["driver"]) # todo["driver"]
              <7>1. todo["driver"] \in Seq(Statements("driver"))
                BY ClientFacts DEF TypeInv, ScriptsOK, Doer
              <7> QED BY <3>1, <7>1, TailDiffers
            <6> QED BY <2>1, <6>4, <6>5
          <5> QED BY <5>1
        <4> QED BY <1>0, <3>2, <4>1, LoggedByDriver
      <3>5. b \notin sending'
        <4>1. \A o \in Builds : ~Built(o)
          BY <3>1 DEF Built, Free
        <4> QED BY <3>2, <4>1, DriverFrame
      <3> QED BY <3>3, <3>4, <3>5
    <2>2. CASE SentBuild(b)
      <3>1. b \in sending /\ sending' = sending \ {b} /\ wheels' = wheels \cup {b} /\ UNCHANGED db
        BY <2>2 DEF SentBuild
      <3> QED BY <1>a, <3>1
    <2>3. CASE todo'["driver"] # todo["driver"] /\ ~SentBuild(b)
      BY <1>0, <1>2, <2>3, BuildingStarts
    <2> QED BY <2>1, <2>2, <2>3
  <1> QED BY <1>1, <1>2

LEMMA ReadStoredStep ==
  ASSUME TypeInv, Shape, Stores, [Next]_<<vars, world>>
  PROVE  ReadStored'
  <1> SUFFICES ASSUME Unimported', stage' = "write", NEW r \in data', r.status = "success"
               PROVE  <<Target', r.ver>> \in wheels'
    BY DEF ReadStored
  <1>0. Unimported /\ Good /\ Orderly
    BY UnimportedBefore
  <1>1. CASE Write
    <2>1. GetData
      BY <1>1, WriteCases DEF DeleteVersion, WritePages, DeletePackage, WriteLog, scribeVars,
            TypeInv, PagesOK, Rewrites
    <2>2. /\ data' = {o \in ProjectData(Target) : o.ver # Key[2]} /\ UNCHANGED <<serving, wheels>>
          /\ ~Idle /\ Target = Key[1] /\ Key \in Keys
      BY <1>1, <2>1, WriteCases DEF GetData, secretaryVars
    <2>3. PICK b \in db.vers : /\ b[1] = Target /\ r.ver = b[2]
                               /\ r.status = Status(b) /\ b[2] # Key[2]
      <3>1. PICK b \in {v \in db.vers : v[1] = Target} :
              r = [ver     |-> b[2],
                   status  |-> Status(b),
                   yanked  |-> b \in db.yanked,
                   skipped |-> db.skip[b] # "" \/ db.skip[Package(Target)] # ""]
        BY <2>2 DEF ProjectData
      <3> QED BY <2>2, <3>1
    <2>4. b \in db.files /\ b \in Builds /\ <<Target, r.ver>> = b
      <3>1. b \in Builds
        BY <2>3, RowFacts DEF TypeInv
      <3> QED BY <2>3, <3>1 DEF Status, Builds
    <2>5. ASSUME NEW k, Past(k), Covers(k, b) PROVE FALSE
      <3>1. CASE Command \in Rewrites
        <4>1. ~At(k, 1) /\ ~At(k, 2)
          BY <1>0, <2>2, <3>1 DEF Stores, Calm
        <4>2. Command = "DEL"
          BY <2>5, <4>1 DEF Past, Del
        <4> QED BY <3>1, <4>2 DEF Rewrites
      <3>2. CASE Command = "DEL" /\ stage = "read"
        <4>1. At(Key, 3)
          BY <1>0, <2>2, <3>2, OrderlyDel
        <4>2. Key = k
          BY <2>5, <4>1 DEF At, Past
        <4>3. Key[2] # NoVer
          BY <3>2, StageFacts DEF TypeInv, Rewrites
        <4> QED BY <2>3, <2>5, <4>2, <4>3 DEF Covers
      <3> QED BY <2>1, <3>1, <3>2 DEF GetData
    <2>6. b \in wheels
      BY <1>0, <2>4, <2>5 DEF Stores, FilesStored
    <2>7. Target' = Target
      BY <2>2 DEF Target, Key
    <2> QED BY <2>2, <2>4, <2>6, <2>7
  <1>2. CASE UNCHANGED <<stage, data>> /\ (~Idle => UNCHANGED serving) /\ ~Write
    <2>1. stage = "write" /\ ~Idle
      BY <1>2, StageFacts DEF TypeInv
    <2>2. Target' = Target
      BY <1>2, <2>1 DEF Target, Key
    <2>3. <<Target, r.ver>> \in wheels
      BY <1>0, <1>2, <2>1 DEF Stores, ReadStored
    <2> QED BY <1>2, <2>2, <2>3, WheelStep
  <1>3. CASE Restart \/ Crash
    BY <1>3 DEF Restart, Crash, Start, ScribeOnce
  <1> QED BY <1>1, <1>2, <1>3, PagesStep

LEMMA OffersStep ==
  ASSUME TypeInv, Shape, Stores, OffersAreThere, [Next]_<<vars, world>>
  PROVE  OffersAreThere'
  <1> SUFFICES ASSUME Orderly', "piw-import" \notin world'.requests, NEW b \in Builds, NEW y \in BOOLEAN,
                      simple'[b[1]] # NoPage, <<b[2], y>> \in simple'[b[1]]
               PROVE  b \in wheels' \/ (~Idle' /\ Command' = "DEL" /\ Covers(Key', b))
    BY DEF OffersAreThere, Covers
  <1>0. Orderly /\ "piw-import" \notin world.requests
    <2>1. UNCHANGED world
      BY DEF Next
    <2> QED BY <2>1 DEF Orderly
  <1>a. b = <<b[1], b[2]>> /\ b[1] \in Pkgs
    BY DEF Builds
  <1>1. CASE ~Up
    <2>1. UNCHANGED <<simple, wheels, serving>>
      BY <1>1, NoAction DEF vars, webVars, scribeVars, secretaryVars
    <2>2. Idle' = Idle /\ Command' = Command /\ Key' = Key
      BY <2>1 DEF Idle, Command, Key
    <2> QED BY <1>0, <2>1, <2>2 DEF OffersAreThere
  <1>2. CASE Up
    <2>1. Unimported /\ Good
      BY <1>0, <1>2 DEF Unimported, Good
    <2>2. CASE Write
      <3>1. CASE WritePages
        <4>1. stage = "write" /\ UNCHANGED wheels
              /\ \/ UNCHANGED simple
                 \/ simple' = [simple EXCEPT ![Target] = Offered(data)]
          BY <3>1 DEF WritePages, WritePackageIndex
        <4>2. \A r \in data : r.status = "success" => <<Target, r.ver>> \in wheels
          BY <2>1, <4>1 DEF Stores, ReadStored
        <4>3. Target \in Pkgs /\ DOMAIN simple = Pkgs
          BY <2>2, WriteCases DEF TypeInv, PagesOK
        <4>4. CASE b[1] = Target /\ simple' = [simple EXCEPT ![Target] = Offered(data)]
          <5>1. <<b[2], y>> \in Offered(data)
            BY <4>3, <4>4
          <5>2. PICK r \in data : r.status = "success" /\ <<b[2], y>> = <<r.ver, r.yanked>>
            BY <5>1 DEF Offered
          <5>3. r.ver = b[2]
            BY <5>2
          <5> QED BY <1>a, <4>1, <4>2, <4>4, <5>2, <5>3
        <4>5. CASE simple'[b[1]] = simple[b[1]] /\ (b[1] # Target \/ UNCHANGED simple)
          <5>1. b \in wheels \/ (~Idle /\ Command = "DEL" /\ Covers(Key, b))
            BY <1>0, <4>5 DEF OffersAreThere
          <5>2. CASE ~Idle /\ Command = "DEL" /\ Covers(Key, b)
            <6>1. b[1] = Target
              BY <2>2, <5>2, WriteCases DEF Covers
            <6>2. simple' = [simple EXCEPT ![Target] = Offered(data)]
              BY <3>1, <5>2 DEF WritePages, WritePackageIndex
            <6> QED BY <4>4, <6>1, <6>2
          <5> QED BY <4>1, <5>1, <5>2
        <4> QED BY <1>a, <4>1, <4>3, <4>4, <4>5
      <3>2. CASE DeletePackage
        <4>1. /\ Command = "DEL" /\ Key[2] = NoVer /\ Target \in Pkgs /\ DOMAIN simple = Pkgs
              /\ wheels' = wheels \ (Covered(Key) \cap db.files)
              /\ simple' = [simple EXCEPT ![Target] = NoPage]
          BY <2>2, <3>2, WriteCases DEF DeletePackage, TypeInv, PagesOK
        <4>2. b[1] # Target
          BY <4>1
        <4>3. ~Covers(Key, b)
          BY <2>2, <4>2, WriteCases DEF Covers
        <4>4. b \in wheels
          BY <1>0, <4>1, <4>2, <4>3 DEF OffersAreThere
        <4> QED BY <4>1, <4>3, <4>4 DEF Covered
      <3>3. CASE DeleteVersion
        <4>1. /\ Command = "DEL" /\ UNCHANGED <<serving, simple>>
              /\ wheels' = wheels \ (Covered(Key) \cap db.files)
          BY <3>3 DEF DeleteVersion, secretaryVars
        <4>2. ~Idle' /\ Command' = "DEL" /\ Key' = Key
          BY <2>2, <4>1, WriteCases DEF Idle, Command, Key
        <4>3. b \in wheels \/ Covers(Key, b)
          BY <1>0, <4>1 DEF OffersAreThere
        <4> QED BY <4>1, <4>2, <4>3 DEF Covered
      <3>4. CASE GetData
        <4>1. UNCHANGED <<serving, simple, wheels>>
          BY <3>4 DEF GetData, secretaryVars
        <4>2. Idle' = Idle /\ Command' = Command /\ Key' = Key
          BY <4>1 DEF Idle, Command, Key
        <4> QED BY <1>0, <4>1, <4>2 DEF OffersAreThere
      <3>5. CASE WriteLog
        <4>1. UNCHANGED <<simple, wheels>> /\ Command # "DEL"
          BY <3>5 DEF WriteLog, scribeVars
        <4> QED BY <1>0, <4>1 DEF OffersAreThere
      <3> QED BY <2>2, <3>1, <3>2, <3>3, <3>4, <3>5, WriteCases
    <2>3. CASE ~Write /\ UNCHANGED simple /\ (~Idle => UNCHANGED serving)
      <3>1. wheels \subseteq wheels'
        BY <2>3, WheelStep
      <3>2. ~Idle => Idle' = Idle /\ Command' = Command /\ Key' = Key
        BY <2>3 DEF Idle, Command, Key
      <3> QED BY <1>0, <2>3, <3>1, <3>2 DEF OffersAreThere
    <2>4. CASE Restart
      <3>1. Idle /\ UNCHANGED <<simple, wheels>>
        BY <2>4 DEF Restart, Start, ScribeOnce
      <3> QED BY <1>0, <3>1 DEF OffersAreThere
    <2>5. ~Crash
      BY <1>0 DEF Crash, Orderly
    <2> QED BY <2>2, <2>3, <2>4, <2>5, PagesStep
  <1> QED BY <1>1, <1>2

LEMMA StoresInit == Init => Stores /\ OffersAreThere
  <1> SUFFICES ASSUME Init PROVE Stores /\ OffersAreThere
    OBVIOUS
  <1>1. /\ Idle /\ db.files = {} /\ sending = {} /\ stage = "start"
        /\ simple = [p \in Pkgs |-> NoPage] /\ todo["driver"] = <<>>
    BY ClientFacts DEF Init, ScribeInit, CatalogueInit, SecretaryInit, Idle
  <1>2. ASSUME NEW b PROVE ~Building(b, TRUE, 3)
    BY <1>1, BuildRestSteps DEF Building
  <1>3. OffersAreThere
    BY <1>1 DEF OffersAreThere, Builds
  <1> QED BY <1>1, <1>2, <1>3 DEF Stores, Calm, FilesStored, StoredFirst, ReadStored

LEMMA StoresStep == TypeInv /\ Shape /\ Stores /\ [Next]_<<vars, world>> => Stores'
  <1> SUFFICES ASSUME TypeInv, Shape, Stores, [Next]_<<vars, world>> PROVE Stores'
    OBVIOUS
  <1>1. Calm'
    BY CalmStep DEF Stores
  <1> QED BY <1>1, FilesStoredStep, StoredFirstStep, ReadStoredStep DEF Stores

\* A simple page never offers a wheel that is not there, but while TheScribe
\* removes it, which takes the wheel first and then writes the page: what it
\* has read stays true until it has written it, and a build is logged after
\* its wheel is stored.
THEOREM OffersHold == Spec => []OffersAreThere
  <1>1. Init => TypeInv /\ Shape /\ Stores /\ OffersAreThere
    BY TypeInit, ShapeInit, StoresInit
  <1>2. TypeInv /\ Shape /\ Stores /\ OffersAreThere /\ [Next]_<<vars, world>>
          => (TypeInv /\ Shape /\ Stores /\ OffersAreThere)'
    BY TypeStep, ShapeStep, StoresStep, OffersStep
  <1> QED BY <1>1, <1>2, PTL DEF Spec

-----------------------------------------------------------------------------
(* What CloudGazer knows of the packages is what the database knows.        *)

Working == event.action \notin {"none", "remove"}

PublishedKnown ==
  Good => \A j \in published : j[1] \in db.pkgs \/ (Working /\ j[1] = event.key[1])
PackagesKnown ==
  Good => \A p \in packages : p \in db.pkgs \/ (Working /\ p = event.key[1])
RemovedUnlisted ==
  Good /\ event.action = "remove" =>
    IF event.key[2] = NoVer
    THEN event.key[1] \notin packages /\ \A j \in published : j[1] # event.key[1]
    ELSE event.key[1] \in db.pkgs
AddedFirst ==
  Good /\ Working =>
    \/ event.key[1] \in db.pkgs
    \/ /\ todo["gazer"] # <<>> /\ Current("gazer").do = "addpkg"
       /\ Current("gazer").key = Package(event.key[1])

Listed == PublishedKnown /\ PackagesKnown /\ RemovedUnlisted /\ AddedFirst

LEMMA GazerFrame ==
  ASSUME [Next]_<<vars, world>>
  PROVE  \/ UNCHANGED <<event, published, packages>>
         \/ SetSerial
         \/ \E e \in PyPIEvents : ReadPyPI(e)
         \/ Restart \/ Crash
  <1>1. CASE \E c \in Clients : Transact(c) \/ Ask(c) \/ Exclude(c) \/ Acked(c)
    BY <1>1 DEF Transact, Ask, Exclude, Acked, gazerVars
  <1>2. CASE Due \/ Write \/ Reply
    BY <1>2 DEF Due, Write, Reply, gazerVars
  <1>3. CASE \E b \in Builds : Built(b) \/ FailedBuild(b) \/ SentBuild(b) \/ SentImport(b)
    BY <1>3 DEF Built, FailedBuild, SentBuild, SentImport, gazerVars
  <1>4. CASE \E r \in ChaseRequests : HandleImport(r)
    BY <1>4 DEF HandleImport, gazerVars
  <1>5. CASE UNCHANGED <<vars, world>>
    BY <1>5 DEF vars, gazerVars
  <1> QED BY <1>1, <1>2, <1>3, <1>4, <1>5 DEF Next, Step, Over

\* The script of an event that does not remove anything begins with the package,
\* when CloudGazer does not know it.
LEMMA ScriptAddsPackage ==
  ASSUME NEW e \in PyPIEvents, e.action # "remove", NEW known, e.key[1] \notin known,
         todo'["gazer"] = EventScript(e, known)
  PROVE  /\ todo'["gazer"] # <<>> /\ Current("gazer")'.do = "addpkg"
         /\ Current("gazer")'.key = Package(e.key[1])
  <1> DEFINE k == e.key
             p == Package(k[1])
             name == AddPackageName(k[1])
             x == AddNewPackage(p, "", <<name>> \o Rewrite("BOTH", p), <<>>)
             y == IF k[2] = NoVer THEN <<>> ELSE VersionScript(e)
  <1>1. EventScript(e, known) = (<<x>> \o <<name>>) \o y
    BY DEF EventScript
  <1>2. y \in Seq(AboutAll(k[1]))
    <2>1. k[2] # NoVer => k \in Builds
      BY EventKeys, KeyFacts
    <2>2. k[2] # NoVer => VersionScript(e) \in Seq(AboutAll(k[1]))
      BY <2>1, VersionScriptAbout, EventKeys
    <2> QED BY <2>2, EmptyInSeq
  <1>3. x.do = "addpkg" /\ x.key = Package(k[1])
    BY DoFields DEF AddNewPackage, Test
  <1> HIDE DEF x, y, name
  <1>4. \A S : \A t \in Seq(S) : Head((<<x>> \o <<name>>) \o t) = x /\ (<<x>> \o <<name>>) \o t # <<>>
    <2> SUFFICES ASSUME NEW S, NEW t \in Seq(S)
                 PROVE  Head((<<x>> \o <<name>>) \o t) = x /\ (<<x>> \o <<name>>) \o t # <<>>
      OBVIOUS
    <2> DEFINE T == S \cup {x, name}
    <2>1. <<x>> \in Seq(T) /\ <<name>> \in Seq(T) /\ t \in Seq(T)
      BY SeqMonotone
    <2> DEFINE u == <<x>> \o <<name>>
    <2>2. u \in Seq(T) /\ Len(u) = 2 /\ u[1] = x
      BY <2>1
    <2> HIDE DEF u, T
    <2>3. /\ u \o t \in Seq(T) /\ Len(u \o t) = Len(u) + Len(t)
          /\ \A i \in 1..Len(u) + Len(t) : (u \o t)[i] = IF i <= Len(u) THEN u[i] ELSE t[i - Len(u)]
      BY <2>1, <2>2, ConcatProperties, ZenonT(60)
    <2>4. Len(t) \in Nat
      BY <2>1
    <2>5. (u \o t)[1] = x /\ Len(u \o t) > 0
      BY <2>2, <2>3, <2>4
    <2> DEFINE w == u \o t
    <2> HIDE DEF w
    <2>6. w \in Seq(T) /\ w[1] = x /\ Len(w) > 0
      BY <2>3, <2>5 DEF w
    <2>7. Head(w) = x /\ w # <<>>
      BY <2>6
    <2> QED BY <2>7 DEF u, w
  <1>5. Head(todo'["gazer"]) = x /\ todo'["gazer"] # <<>>
    BY <1>1, <1>2, <1>4
  <1> QED BY <1>3, <1>5 DEF Current

LEMMA ListedKept ==
  ASSUME TypeInv, Shape, Listed, Good, Good', [Next]_<<vars, world>>,
         UNCHANGED <<event, published, packages>>
  PROVE  Listed'
  <1>0. Orderly
    BY DEF Good
  <1>1. ASSUME NEW p, p \in db.pkgs, p \notin db'.pkgs
        PROVE  /\ event.action = "remove" /\ event.key[1] = p /\ event.key[2] = NoVer
               /\ p \notin packages /\ \A j \in published : j[1] # p
    <2>1. At(Package(p), 1)
      BY <1>0, <1>1, RowsStep
    <2>2. event.action = "remove" /\ event.key[1] = p /\ event.key[2] = NoVer
      BY <2>1 DEF At, Package
    <2> QED BY <2>2 DEF Listed, RemovedUnlisted
  <1>2. Working' = Working
    BY DEF Working
  <1>3. PublishedKnown'
    BY <1>1, <1>2 DEF Listed, PublishedKnown
  <1>4. PackagesKnown'
    BY <1>1, <1>2 DEF Listed, PackagesKnown
  <1>5. RemovedUnlisted'
    BY <1>1 DEF Listed, RemovedUnlisted
  <1>6. AddedFirst'
    <2> SUFFICES ASSUME Working, event.key[1] \notin db'.pkgs
                 PROVE  /\ todo'["gazer"] # <<>> /\ Current("gazer")'.do = "addpkg"
                        /\ Current("gazer")'.key = Package(event.key[1])
      BY <1>2 DEF AddedFirst
    <2>1. event.key[1] \notin db.pkgs
      BY <1>1 DEF Working
    <2>2. /\ todo["gazer"] # <<>> /\ Current("gazer").do = "addpkg"
          /\ Current("gazer").key = Package(event.key[1])
      BY <2>1 DEF Listed, AddedFirst
    <2>3. CASE todo'["gazer"] = todo["gazer"]
      BY <2>2, <2>3 DEF Current
    <2>4. ~Transact("gazer")
      <3> SUFFICES ASSUME Transact("gazer") PROVE FALSE
        OBVIOUS
      <3> DEFINE s == Current("gazer")
      <3>1. db' = Executed(s)
        <4>1. ~(dead' = dead \cup {"gazer"})
          BY DEF Good, Up
        <4> QED BY <4>1, TransactEffect, ClientFacts
      <3>2. s.key \in Keys /\ RowsOK
        BY <2>2, CurrentType, ClientFacts DEF TypeInv
      <3> HIDE DEF s
      <3>3. db'.pkgs = db.pkgs \cup {s.key[1]} \/ (db' = db /\ Known(s.key))
        BY <2>2, <3>1, <3>2, RowChanges DEF s
      <3>4. s.key[1] = event.key[1] /\ s.key[2] = NoVer
        BY <2>2 DEF s, Package
      <3> QED BY <2>1, <3>3, <3>4 DEF Known
    <2>5. ~Acked("gazer")
      BY <2>2 DEF Acked
    <2>6. ~(Write /\ Client = "gazer" /\ ~Idle)
      BY <2>2, ClientFacts DEF TypeInv, ServingOK, Commands, Rewrites, Shape, ServedShape
    <2> QED BY <2>2, <2>3, <2>4, <2>5, <2>6, <1>0, GazerMoves, ClientFacts
            DEF Rewrites, ReadPyPI, Free, Restart, Crash, Orderly
  <1> QED BY <1>3, <1>4, <1>5, <1>6 DEF Listed

LEMMA ListedStep ==
  ASSUME TypeInv, Shape, Listed, [Next]_<<vars, world>>
  PROVE  Listed'
  <1>1. CASE ~Good'
    BY <1>1 DEF Listed, PublishedKnown, PackagesKnown, RemovedUnlisted, AddedFirst
  <1>2. CASE Good' /\ UNCHANGED <<event, published, packages>>
    BY <1>2, GoodBefore, ListedKept
  <1>3. CASE Good' /\ SetSerial
    <2>1. /\ todo["gazer"] = <<>> /\ event'.action = "none"
          /\ UNCHANGED <<db, published, packages>>
      BY <1>3 DEF SetSerial, Free, NoEvent
    <2>2. Working => event.key[1] \in db.pkgs
      BY <1>3, <2>1, GoodBefore DEF Listed, AddedFirst
    <2>3. (\A j \in published : j[1] \in db.pkgs) /\ \A p \in packages : p \in db.pkgs
      BY <1>3, <2>2, GoodBefore DEF Listed, PublishedKnown, PackagesKnown
    <2> QED BY <2>1, <2>3
            DEF Listed, PublishedKnown, PackagesKnown, RemovedUnlisted, AddedFirst, Working
  <1>4. ASSUME Good', NEW e \in PyPIEvents, ReadPyPI(e) PROVE Listed'
    <2>1. /\ event = NoEvent /\ event' = e /\ UNCHANGED db
          /\ todo'["gazer"] = EventScript(e, packages)
          /\ packages' = PackagesAfter(e, packages)
          /\ e.action = "remove" => e.key \in published
          /\ published' = IF e.action = "remove"
                  THEN published \ ({e.key} \cup Covered(e.key))
                  ELSE published \cup {e.key, Package(e.key[1])}
      <3>1. Then("gazer", EventScript(e, packages))
        BY <1>4 DEF ReadPyPI
      <3>2. todo'["gazer"] = EventScript(e, packages)
        BY <3>1, ThenTodo, ClientFacts DEF TypeInv, ScriptsOK
      <3> QED BY <1>4, <3>2 DEF ReadPyPI
    <2>2. ~Working
      BY <2>1 DEF Working, NoEvent
    <2>3. (\A j \in published : j[1] \in db.pkgs) /\ packages \subseteq db.pkgs /\ published \subseteq Keys
      BY <1>4, <2>2, GoodBefore DEF Listed, PublishedKnown, PackagesKnown, TypeInv, TasksOK
    <2>4. CASE e.action = "remove"
      <3>1. CASE e.key[2] = NoVer
        <4>1. packages' = packages \ {e.key[1]}
          BY <2>1, <2>4, <3>1 DEF PackagesAfter
        <4>2. ASSUME NEW j \in published', j[1] = e.key[1] PROVE FALSE
          <5>1. j \in published /\ j # e.key /\ j \notin Covered(e.key)
            BY <2>1, <2>4, <4>2
          <5>2. j \in Keys /\ e.key \in Keys
            BY <2>3, <5>1, EventKeys
          <5>3. j[2] # NoVer
            BY <3>1, <4>2, <5>1, <5>2 DEF Keys
          <5>4. j \in Builds
            BY <5>2, <5>3, KeyFacts
          <5> QED BY <3>1, <4>2, <5>1, <5>4 DEF Covered, Covers
        <4>3. published' \subseteq published
          BY <2>1, <2>4
        <4> QED BY <2>1, <2>3, <2>4, <3>1, <4>1, <4>2, <4>3
                DEF Listed, PublishedKnown, PackagesKnown, RemovedUnlisted, AddedFirst, Working
      <3>2. CASE e.key[2] # NoVer
        <4>1. packages' = packages
          BY <2>1, <2>4, <3>2 DEF PackagesAfter
        <4>2. e.key[1] \in db.pkgs
          BY <2>1, <2>3, <2>4
        <4>3. published' \subseteq published
          BY <2>1, <2>4
        <4> QED BY <2>1, <2>3, <2>4, <3>2, <4>1, <4>2, <4>3
                DEF Listed, PublishedKnown, PackagesKnown, RemovedUnlisted, AddedFirst, Working
      <3> QED BY <3>1, <3>2
    <2>5. CASE e.action # "remove"
      <3>1. e.action # "none"
        BY EventKeys
      <3>2. Working'
        BY <2>1, <2>5, <3>1 DEF Working
      <3>3. packages' = packages \cup {e.key[1]}
        BY <2>1, <2>5 DEF PackagesAfter
      <3>4. published' = published \cup {e.key, Package(e.key[1])} /\ Package(e.key[1])[1] = e.key[1]
        BY <2>1, <2>5 DEF Package
      <3>5. PublishedKnown'
        BY <2>1, <2>3, <3>2, <3>4 DEF PublishedKnown
      <3>6. PackagesKnown'
        BY <2>1, <2>3, <3>2, <3>3 DEF PackagesKnown
      <3>7. AddedFirst'
        <4>1. CASE e.key[1] \in packages
          BY <2>1, <2>3, <4>1 DEF AddedFirst
        <4>2. CASE e.key[1] \notin packages
          <5>1. /\ todo'["gazer"] # <<>> /\ Current("gazer")'.do = "addpkg"
                /\ Current("gazer")'.key = Package(e.key[1])
            BY <2>1, <2>5, <4>2, ScriptAddsPackage
          <5> QED BY <2>1, <5>1 DEF AddedFirst
        <4> QED BY <4>1, <4>2
      <3>8. RemovedUnlisted'
        BY <2>1, <2>5 DEF RemovedUnlisted
      <3> QED BY <3>5, <3>6, <3>7, <3>8 DEF Listed
    <2> QED BY <2>4, <2>5
  <1>5. CASE Good' /\ (Restart \/ Crash)
    <2>1. Restart /\ todo["gazer"] = <<>> /\ UNCHANGED <<db, event, published>>
          /\ packages' = IF event = NoEvent THEN db.pkgs ELSE PackagesAfter(event, db.pkgs)
      BY <1>5, ClientFacts, GoodBefore DEF Good, Orderly, Restart, Crash, Start
    <2>2. Working => event.key[1] \in db.pkgs
      BY <1>5, <2>1, GoodBefore DEF Listed, AddedFirst
    <2>3. \A j \in published : j[1] \in db.pkgs
      BY <1>5, <2>2, GoodBefore DEF Listed, PublishedKnown
    <2>4. \A p \in packages' : p \in db.pkgs
      <3>1. CASE event = NoEvent
        BY <2>1, <3>1
      <3>2. CASE event # NoEvent /\ event.action # "remove"
        <4>1. event.key[1] \in db.pkgs
          BY <2>2, <3>2, EventKeys DEF Working, TypeInv, TasksOK
        <4>2. packages' = db.pkgs \cup {event.key[1]}
          BY <2>1, <3>2 DEF PackagesAfter
        <4> QED BY <4>1, <4>2
      <3>3. CASE event # NoEvent /\ event.action = "remove"
        BY <2>1, <3>3 DEF PackagesAfter
      <3> QED BY <3>1, <3>2, <3>3
    <2>5. event.action = "remove" /\ event.key[2] = NoVer => event.key[1] \notin packages'
      <3>1. event.action = "remove" => event # NoEvent
        BY DEF NoEvent
      <3> QED BY <2>1, <3>1 DEF PackagesAfter
    <2>6. RemovedUnlisted'
      BY <1>5, <2>1, <2>5, GoodBefore DEF Listed, RemovedUnlisted
    <2> QED BY <2>1, <2>2, <2>3, <2>4, <2>6
            DEF Listed, PublishedKnown, PackagesKnown, AddedFirst, Working
  <1> QED BY <1>1, <1>2, <1>3, <1>4, <1>5, GazerFrame

-----------------------------------------------------------------------------
(* Nothing is left of a package that was removed.                           *)

HasPages(p) == simple[p] # NoPage \/ project[p] # NoPage \/ p \in index \/ p \in cache
Asked(p) == p \in DOMAIN commands \/ (~Idle /\ Command \in Rewrites /\ Target = p)

\* Pages are asked for and written only of a package that is known.
Traced == Good => \A p \in Pkgs : HasPages(p) \/ Asked(p) => p \in db.pkgs \/ p \in late

\* Before its rows go, its pages are gone, and none is asked for.
Cleared ==
  Good => \A p \in Pkgs : At(Package(p), 1) \/ At(Package(p), 2) =>
            p \in late \/ (~HasPages(p) /\ p \notin DOMAIN commands)

\* While TheScribe removes them, none is asked for.
Expunged == Good => \A p \in Pkgs : Del(Package(p)) => p \notin DOMAIN commands

Traces == Calm /\ Listed /\ Traced /\ Cleared /\ Expunged

LEMMA CommandsStep ==
  ASSUME TypeInv, Good, [Next]_<<vars, world>>, NEW p \in Pkgs, p \in DOMAIN commands'
  PROVE  \/ p \in DOMAIN commands
         \/ \E c \in Clients : /\ Ask(c) /\ Idle /\ todo[c] # <<>>
                               /\ Current(c).do \in Rewrites /\ Current(c).key[1] = p
  <1>1. CASE UNCHANGED commands
    BY <1>1
  <1>2. ASSUME NEW c \in Clients, Ask(c)
        PROVE  \/ p \in DOMAIN commands
               \/ /\ Idle /\ todo[c] # <<>>
                  /\ Current(c).do \in Rewrites /\ Current(c).key[1] = p
    <2>1. Idle /\ todo[c] # <<>> /\ HandleInput(c, Current(c).do, Current(c).key)
      BY <1>2 DEF Ask, Asks, HandleInput
    <2>2. Current(c).key[1] \in Pkgs
      BY <2>1, CurrentType DEF TypeInv
    <2>3. CASE Current(c).do \in Rewrites
      <3>1. Remember(Current(c).key[1], Current(c).do)
        BY <2>1, <2>3 DEF HandleInput
      <3>2. DOMAIN commands' = DOMAIN commands \cup {Current(c).key[1]}
        BY <2>2, <2>3, <3>1, RememberType DEF TypeInv
      <3> QED BY <2>1, <2>3, <3>2
    <2>4. CASE Current(c).do \notin Rewrites
      <3>1. UNCHANGED commands \/ Expunge(Current(c).key[1])
        BY <2>1, <2>4 DEF HandleInput
      <3> QED BY <2>2, <3>1, ExpungeType DEF TypeInv
    <2> QED BY <2>3, <2>4
  <1>3. CASE Due
    BY <1>3, HandleOutputType DEF Due, TypeInv
  <1>4. CASE Write
    BY <1>4, HandleIndexType DEF Write, TypeInv
  <1>5. CASE Restart
    <2>1. Load(Pending)
      BY <1>5 DEF Restart, Start
    <2>2. DOMAIN commands' = {Pending[i][1] : i \in 1..Len(Pending)}
      BY <2>1 DEF Load
    <2>3. PICK i \in 1..Len(Pending) : p = Pending[i][1]
      BY <2>2
    <2>4. i \in 1..Len(buffer) /\ p = buffer[i]
      BY <2>3, PendingType DEF TypeInv
    <2>5. p \in ToSet(buffer)
      <3>1. DOMAIN buffer = 1..Len(buffer)
        BY DEF TypeInv, BufferOK
      <3> QED BY <2>4, <3>1 DEF ToSet
    <2> QED BY <2>5 DEF TypeInv, BufferOK
  <1>6. ~Crash
    BY DEF Crash, Good, Orderly
  <1>7. CASE \E c \in Clients : Transact(c) \/ Exclude(c) \/ Acked(c)
    BY <1>1, <1>7 DEF Transact, Exclude, Acked, webVars, secretaryVars
  <1>8. CASE SetSerial \/ Reply
    BY <1>1, <1>8 DEF SetSerial, Reply, webVars, secretaryVars
  <1>9. CASE \E b \in Builds : Built(b) \/ FailedBuild(b) \/ SentBuild(b) \/ SentImport(b)
    BY <1>1, <1>9 DEF Built, FailedBuild, SentBuild, SentImport, webVars, secretaryVars
  <1>10. CASE (\E e \in PyPIEvents : ReadPyPI(e)) \/ (\E r \in ChaseRequests : HandleImport(r))
    BY <1>1, <1>10 DEF ReadPyPI, HandleImport, webVars, secretaryVars
  <1>11. CASE UNCHANGED <<vars, world>>
    BY <1>1, <1>11 DEF vars, webVars, secretaryVars
  <1> QED BY <1>2, <1>3, <1>4, <1>5, <1>6, <1>7, <1>8, <1>9, <1>10, <1>11 DEF Next, Step, Over

LEMMA HasPagesStep ==
  ASSUME TypeInv, Shape, Good, [Next]_<<vars, world>>, NEW p \in Pkgs, HasPages(p)'
  PROVE  \/ HasPages(p)
         \/ Write /\ WritePages /\ ~Idle /\ Target = p
              /\ (Command \in Rewrites \/ (Command = "DEL" /\ Key[2] # NoVer))
         \/ Restart /\ p \in db.pkgs
  <1>1. CASE Write
    <2>0. ~Idle /\ Target \in Pkgs /\ DOMAIN simple = Pkgs /\ DOMAIN project = Pkgs
      BY <1>1, WriteCases DEF TypeInv, PagesOK
    <2>1. CASE WritePages
      <3>1. Command \in Rewrites \/ (Command = "DEL" /\ Key[2] # NoVer)
        BY <2>1, StageFacts DEF WritePages, TypeInv
      <3>2. CASE p # Target
        <4>1. simple'[p] = simple[p] /\ project'[p] = project[p]
          BY <2>0, <2>1, <3>2 DEF WritePages, WriteProjectPage, WritePackageIndex
        <4>2. (p \in cache' => p \in cache) /\ (p \in index' => p \in index \/ p \in cache)
          BY <2>1, <3>2 DEF WritePages, WriteSimpleIndex
        <4> QED BY <4>1, <4>2 DEF HasPages
      <3> QED BY <1>1, <2>0, <2>1, <3>1, <3>2
    <2>2. CASE DeletePackage
      <3>1. simple'[p] \in {NoPage, simple[p]} /\ project'[p] \in {NoPage, project[p]}
        BY <2>0, <2>2 DEF DeletePackage
      <3>2. cache' \subseteq cache /\ index' = cache'
        BY <2>2 DEF DeletePackage, WriteSimpleIndex
      <3> QED BY <3>1, <3>2 DEF HasPages
    <2>3. CASE UNCHANGED <<simple, project, index, cache>>
      BY <2>3 DEF HasPages
    <2> QED BY <1>1, <2>1, <2>2, <2>3, WriteCases DEF DeleteVersion, GetData, WriteLog, scribeVars
  <1>2. CASE Restart
    BY <1>2 DEF Restart, Start, ScribeOnce, HasPages
  <1>3. ~Crash
    BY DEF Crash, Good, Orderly
  <1>4. CASE UNCHANGED <<stage, data, simple, project, index, cache>>
    BY <1>4 DEF HasPages
  <1> QED BY <1>1, <1>2, <1>3, <1>4, PagesStep

\* A task asks for pages of a package that is known, or late.
LEMMA AskedKnown ==
  ASSUME TypeInv, Shape, Good, Listed, NEW c \in Clients, Ask(c), Current(c).do \in Rewrites
  PROVE  /\ Current(c).key[1] \in db.pkgs \/ Current(c).key[1] \in late'
         /\ Gone(Current(c).key[1]) => Current(c).key[1] \in late' \/ (c = "gazer" /\ Working)
  <1>1. CASE c # "gazer"
    BY <1>1 DEF Ask, Gone
  <1>2. CASE c = "gazer"
    <2>1. todo["gazer"] # <<>>
      BY <1>2 DEF Ask, Asks
    <2>2. event.action # "remove"
      BY <1>2, <2>1, RemovalCurrent DEF Rewrites, Shape
    <2>3. Working /\ Current(c).key[1] = event.key[1]
      BY <1>2, <2>1, <2>2, RemovalPhase DEF Working, Shape
    <2>4. event.key[1] \in db.pkgs
      BY <1>2, <2>3 DEF Listed, AddedFirst, Rewrites
    <2> QED BY <1>2, <2>3, <2>4
  <1> QED BY <1>1, <1>2

LEMMA TracedStep ==
  ASSUME TypeInv, Shape, Traces, [Next]_<<vars, world>>
  PROVE  Traced'
  <1> SUFFICES ASSUME Good', NEW p \in Pkgs, HasPages(p)' \/ Asked(p)', p \notin late'
               PROVE  p \in db'.pkgs
    BY DEF Traced
  <1>0. Good /\ Orderly /\ p \notin late
    BY GoodBefore, DriverFrame DEF Good
  <1>1. ASSUME HasPages(p) \/ Asked(p) PROVE p \in db'.pkgs
    <2>1. p \in db.pkgs
      BY <1>0, <1>1 DEF Traces, Traced
    <2>2. CASE p \notin db'.pkgs
      <3>1. At(Package(p), 1)
        BY <1>0, <2>1, <2>2, RowsStep
      <3>2. ~HasPages(p) /\ p \notin DOMAIN commands
        BY <1>0, <3>1 DEF Traces, Cleared
      <3>3. ~(~Idle /\ Command \in Rewrites)
        BY <1>0, <3>1 DEF Traces, Calm
      <3> QED BY <1>1, <3>2, <3>3 DEF Asked
    <2> QED BY <2>2
  <1>2. CASE HasPages(p)'
    <2>1. CASE Write /\ WritePages /\ ~Idle /\ Target = p /\ Command \in Rewrites
      BY <1>1, <2>1 DEF Asked
    <2>2. CASE Write /\ WritePages /\ ~Idle /\ Target = p /\ Command = "DEL" /\ Key[2] # NoVer
      <3>1. At(Key, 3)
        BY <1>0, <2>2, OrderlyDel
      <3>2. event.action = "remove" /\ event.key = Key
        BY <3>1 DEF At
      <3>3. p \in db.pkgs
        BY <1>0, <2>2, <3>2 DEF Traces, Listed, RemovedUnlisted, Target
      <3>4. UNCHANGED db
        BY <2>2 DEF Write
      <3> QED BY <3>3, <3>4
    <2>3. CASE Restart /\ p \in db.pkgs
      BY <2>3 DEF Restart, Start
    <2> QED BY <1>0, <1>1, <1>2, <2>1, <2>2, <2>3, HasPagesStep
  <1>3. CASE p \in DOMAIN commands'
    <2>1. CASE p \in DOMAIN commands
      BY <1>1, <2>1 DEF Asked
    <2>2. ASSUME NEW c \in Clients, Ask(c), Current(c).do \in Rewrites, Current(c).key[1] = p
          PROVE  p \in db'.pkgs
      <3>1. p \in db.pkgs
        BY <1>0, <2>2, AskedKnown DEF Traces
      <3> QED BY <2>2, <3>1 DEF Ask
    <2> QED BY <1>0, <1>3, <2>1, <2>2, CommandsStep
  <1>4. CASE ~Idle' /\ Command' \in Rewrites /\ Target' = p
    <2>1. CASE UNCHANGED serving
      BY <1>1, <1>4, <2>1 DEF Asked, Idle, Command, Target, Key
    <2>2. CASE Due
      <3>1. PICK q \in Pkgs : q \in DOMAIN commands /\ serving' = <<Itself, commands[q], Package(q)>>
        BY <2>2, HandleOutputType DEF Due, TypeInv
      <3>2. q = p
        BY <1>4, <3>1 DEF Target, Key, Package
      <3> QED BY <1>1, <3>1, <3>2 DEF Asked
    <2> QED BY <1>4, <2>1, <2>2, ServingStep DEF Rewrites
  <1> QED BY <1>2, <1>3, <1>4 DEF Asked

LEMMA ClearedStep ==
  ASSUME TypeInv, Shape, Traces, [Next]_<<vars, world>>
  PROVE  Cleared'
  <1> SUFFICES ASSUME Good', NEW p \in Pkgs, NEW n \in 1..2, At(Package(p), n)', p \notin late'
               PROVE  ~HasPages(p)' /\ p \notin DOMAIN commands'
    BY DEF Cleared
  <1>0. Good /\ Orderly /\ p \notin late
    BY GoodBefore, DriverFrame DEF Good
  <1>a. (n = 1 \/ n = 2) /\ n \in 1..3
    OBVIOUS
  <1> DEFINE k == Package(p)
  <1>b. k[1] = p /\ k[2] = NoVer
    BY DEF Package
  <1>1. CASE At(k, 1) \/ At(k, 2)
    <2>1. ~HasPages(p) /\ p \notin DOMAIN commands
      BY <1>0, <1>1 DEF Traces, Cleared
    <2>2. event.action = "remove" /\ todo["gazer"] # <<>>
      <3>1. 1 \in 0..4 /\ 2 \in 0..4 /\ 1 # 0 /\ 2 # 0
        OBVIOUS
      <3> QED BY <1>1, <3>1, AtFacts
    <2>3. p \notin DOMAIN commands'
      <3>1. ASSUME NEW c \in Clients, Ask(c), Current(c).do \in Rewrites, Current(c).key[1] = p
            PROVE  FALSE
        <4>1. Gone(p)
          BY <1>1, <1>b, RemovingFacts, ClientFacts DEF Gone
        <4> QED BY <1>0, <2>2, <3>1, <4>1, AskedKnown DEF Traces, Working
      <3> QED BY <1>0, <2>1, <3>1, CommandsStep
    <2>4. ~HasPages(p)'
      <3>1. ~(~Idle /\ Command \in Rewrites)
        BY <1>0, <1>1 DEF Traces, Calm
      <3>2. ~(~Idle /\ Command = "DEL")
        <4> SUFFICES ASSUME ~Idle, Command = "DEL" PROVE FALSE
          OBVIOUS
        <4>1. At(Key, 3)
          BY <1>0, OrderlyDel
        <4>2. 1 \in 0..4 /\ 2 \in 0..4 /\ 3 \in 0..4 /\ 3 # 1 /\ 3 # 2
          OBVIOUS
        <4> QED BY <1>1, <4>1, <4>2, AtFacts
      <3>3. ~Restart
        BY <2>2, ClientFacts DEF Restart
      <3> QED BY <1>0, <2>1, <3>1, <3>2, <3>3, HasPagesStep
    <2> QED BY <2>3, <2>4
  <1>2. CASE At(k, 3) /\ Write /\ ~Idle /\ Idle' /\ Client = "gazer" /\ Command = "DEL" /\ Key = k
    <2>1. Del(k)
      BY <1>2 DEF Del
    <2>2. p \notin DOMAIN commands /\ UNCHANGED commands
      BY <1>0, <1>2, <2>1, WriteCases DEF Traces, Expunged
    <2>3. stage = "start"
      BY <1>2, <1>b, StageFacts DEF TypeInv, Rewrites
    <2>4. DeletePackage
      BY <1>2, <1>b, <2>3, WriteCases DEF DeleteVersion, GetData, WritePages, WriteLog, Rewrites
    <2>5. Target = p /\ DOMAIN simple = Pkgs /\ DOMAIN project = Pkgs
      BY <1>2, <1>b DEF Target, TypeInv, PagesOK
    <2>6. simple'[p] = NoPage /\ project'[p] = NoPage /\ p \notin cache' /\ p \notin index'
      BY <2>4, <2>5 DEF DeletePackage, WriteSimpleIndex
    <2> QED BY <2>2, <2>6 DEF HasPages
  <1>3. \/ At(k, 1) \/ At(k, 2)
        \/ At(k, 3) /\ Write /\ ~Idle /\ Idle' /\ Client = "gazer" /\ Command = "DEL" /\ Key = k
    <2>1. PICK j : j = k
      OBVIOUS
    <2>2. At(j, n)'
      BY <2>1 DEF Package
    <2>3. \/ At(j, n)
          \/ n = 3
          \/ n = 2 /\ At(j, 3) /\ Write /\ ~Idle /\ Idle' /\ Client = "gazer" /\ Command = "DEL" /\ Key = j
          \/ n = 1 /\ At(j, 2)
      BY <1>a, <2>2, RemovalStep
    <2> QED BY <1>a, <2>1, <2>3
  <1> QED BY <1>1, <1>2, <1>3

LEMMA ExpungedStep ==
  ASSUME TypeInv, Shape, Traces, [Next]_<<vars, world>>
  PROVE  Expunged'
  <1> SUFFICES ASSUME Good', NEW p \in Pkgs, ~Idle', Command' = "DEL", Key' = Package(p)
               PROVE  p \notin DOMAIN commands'
    BY DEF Expunged, Del, Package
  <1>0. Good /\ Orderly
    BY GoodBefore DEF Good
  <1>1. CASE UNCHANGED serving
    <2>1. Del(Package(p)) /\ ~Idle
      BY <1>1 DEF Del, Idle, Command, Key
    <2>2. p \notin DOMAIN commands
      BY <1>0, <2>1 DEF Traces, Expunged
    <2> QED BY <1>0, <2>1, <2>2, CommandsStep
  <1>2. ASSUME NEW c \in Clients, Ask(c), Current(c).do = "DEL", Current(c).key = Package(p)
        PROVE  p \notin DOMAIN commands'
    <2>1. Expunge(p)
      BY <1>2 DEF Ask, HandleInput, Package, Rewrites
    <2> QED BY <2>1, ExpungeType DEF TypeInv
  <1> QED BY <1>1, <1>2, ServingStep DEF Rewrites

LEMMA TracesInit == Init => Traces
  <1> SUFFICES ASSUME Init PROVE Traces
    OBVIOUS
  <1>1. /\ Idle /\ event.action = "none" /\ packages = {} /\ published = {} /\ commands = <<>>
        /\ simple = [p \in Pkgs |-> NoPage] /\ project = [p \in Pkgs |-> NoPage]
        /\ index = {} /\ cache = {}
    BY DEF Init, ScribeInit, SecretaryInit, Idle, NoEvent
  <1>2. \A k, n : ~At(k, n)
    BY <1>1 DEF At
  <1>3. DOMAIN commands = {}
    BY <1>1
  <1>4. Listed
    BY <1>1 DEF Listed, PublishedKnown, PackagesKnown, RemovedUnlisted, AddedFirst, Working
  <1>5. Traced /\ Cleared /\ Expunged /\ Calm
    BY <1>1, <1>2, <1>3 DEF Traced, Cleared, Expunged, Calm, HasPages, Asked, Del
  <1> QED BY <1>4, <1>5 DEF Traces

LEMMA TracesStep == TypeInv /\ Shape /\ Traces /\ [Next]_<<vars, world>> => Traces'
  <1> SUFFICES ASSUME TypeInv, Shape, Traces, [Next]_<<vars, world>> PROVE Traces'
    OBVIOUS
  <1>1. Calm' /\ Listed'
    BY CalmStep, ListedStep DEF Traces
  <1>2. Traced' /\ Cleared' /\ Expunged'
    BY TracedStep, ClearedStep, ExpungedStep
  <1> QED BY <1>1, <1>2 DEF Traces

\* Rewrites that are buffered when the removal of a package begins do not bring
\* it back: when all is done, no page, no entry of the root index and no wheel
\* is left of a package that PyPI removed, if nobody else asked for its pages
\* while it went.  The removal takes what waits out of the buffer, and it lets
\* nothing in until the rows are gone.  Of a package that is `late`, whose wheel
\* was being sent or whose pages were asked for meanwhile, nothing is claimed:
\* the code brings its pages back.
THEOREM GoneUnlessAskedFor == Spec => []GoneStaysGone
  <1>1. Spec => [](TypeInv /\ Shape /\ Wheels /\ Traces)
    <2>1. Init => TypeInv /\ Shape /\ Wheels /\ Traces
      BY TypeInit, ShapeInit, WheelsInit, TracesInit
    <2>2. TypeInv /\ Shape /\ Wheels /\ Traces /\ [Next]_<<vars, world>>
            => (TypeInv /\ Shape /\ Wheels /\ Traces)'
      BY TypeStep, ShapeStep, WheelsStep, TracesStep
    <2> QED BY <2>1, <2>2, PTL DEF Spec
  <1>2. TypeInv /\ Shape /\ Wheels /\ Traces => GoneStaysGone
    <2> SUFFICES ASSUME TypeInv, Shape, Wheels, Traces, Good,
                        NEW p \in Pkgs, p \notin db.pkgs, p \notin late
                 PROVE  /\ simple[p] = NoPage /\ project[p] = NoPage /\ p \notin index
                        /\ \A b \in wheels : b[1] # p
      BY DEF GoneStaysGone, Settled, Good, Up
    <2>1. ~HasPages(p)
      BY DEF Traces, Traced
    <2>2. \A b \in wheels : b[1] \in db.pkgs \/ b[1] \in late
      BY DEF Wheels, WheelsKnown, Shape, RowsNest
    <2> QED BY <2>1, <2>2 DEF HasPages
  <1> QED BY <1>1, <1>2, PTL

=============================================================================
