----------------------------- MODULE WebsiteProofs -----------------------------
(***************************************************************************)
(* Theorems about Website and their proofs.                                *)
(***************************************************************************)
EXTENDS Website, SequenceTheorems, FiniteSetTheorems, TLAPS

-----------------------------------------------------------------------------
(* What a task may have to execute.  A script of MrChase is that of a tool,  *)
(* "gazer" and "driver" stand for those of the other two tasks.             *)

Tools == {"piw-add", "piw-remove", "piw-rebuild", "piw-import"}

Calls == Commands \cup OwnOps \cup
  {"name", "addpkg", "addver", "skip", "delete", "yank", "unyank", "exists", "binary",
   "delbuilds", "logged", "failed", "releases"}

Args == SkipReasons \cup
  {"NEWPKG", "UPDPKG", "NEWVER", "UPDVER", "NOPKG", "SKIPPKG", "SKIPVER", "YANKVER", "NOVER",
   "DELPKG", "DELVER", "DELPKGBLD", "DELVERBLD", "failed to log build", "REBUILD",
   "unknown package", "invalid ABI", "unknown version", "IMPORT"}

Sound(s, t) ==
  /\ s.do \in {"addpkg", "addver", "skip"} => s.arg \in SkipReasons
  /\ s.do \in {"addver", "expect"} => s.key \in Builds
  /\ s.do \in {"DONE", "ERROR"} => t \in Tools /\ Understands(t, s.do, s.arg)
  /\ s.do = "expect" => t = "piw-import"
  /\ s.do = "logged" => t \in {"piw-import", "driver"}
  /\ s.do \in {"delete", "DEL", "ack"} => t \in {"piw-remove", "gazer"}
  /\ s.do \in {"releases", "delbuilds"} => t = "piw-remove"

\* The statements without branches, those whose branches are such, and those
\* with branches of either kind.
Nested(B, t) ==
  {s \in [do : Calls, key : Keys, arg : Args, yes : Seq(B), no : Seq(B)] : Sound(s, t)}
Leaves(t)     == Nested({}, t)
Tests(t)      == Nested(Leaves(t), t)
Statements(t) == Nested(Tests(t), t)

LEMMA EmptyInSeq == ASSUME NEW S PROVE <<>> \in Seq(S)
  OBVIOUS

LEMMA SeqMonotone ==
  ASSUME NEW S, NEW T, S \subseteq T PROVE Seq(S) \subseteq Seq(T)
  OBVIOUS

LEMMA NestedMonotone ==
  ASSUME NEW A, NEW B, A \subseteq B, NEW t PROVE Nested(A, t) \subseteq Nested(B, t)
  BY SeqMonotone DEF Nested

LEMMA Nesting ==
  ASSUME NEW t
  PROVE  Leaves(t) \subseteq Tests(t) /\ Tests(t) \subseteq Statements(t)
  <1>1. Leaves(t) \subseteq Tests(t)
    BY NestedMonotone DEF Leaves, Tests
  <1>2. Tests(t) \subseteq Statements(t)
    BY <1>1, NestedMonotone DEF Tests, Statements
  <1> QED BY <1>1, <1>2

LEMMA NestingSeq ==
  ASSUME NEW t
  PROVE  /\ Seq(Leaves(t)) \subseteq Seq(Tests(t))
         /\ Seq(Tests(t)) \subseteq Seq(Statements(t))
         /\ Seq(Leaves(t)) \subseteq Seq(Statements(t))
  BY Nesting, SeqMonotone

LEMMA OneInSeq == ASSUME NEW S, NEW e \in S PROVE <<e>> \in Seq(S)
  OBVIOUS

LEMMA TwoInSeq == ASSUME NEW S, NEW d \in S, NEW e \in S PROVE <<d, e>> \in Seq(S)
  OBVIOUS

LEMMA ConcatInSeq ==
  ASSUME NEW S, NEW a \in Seq(S), NEW b \in Seq(S) PROVE a \o b \in Seq(S)
  OBVIOUS

\* A statement without an answer, and one with branches.
LEMMA DoIsLeaf ==
  ASSUME NEW t, NEW do \in Calls, NEW k \in Keys, Sound(Do(do, k), t)
  PROVE  Do(do, k) \in Leaves(t)
  <1>1. <<>> \in Seq({})
    BY EmptyInSeq
  <1> QED BY <1>1 DEF Do, Test, Leaves, Nested, Args, SkipReasons

LEMMA TestIsNested ==
  ASSUME NEW t, NEW B, NEW do \in Calls, NEW k \in Keys, NEW arg \in Args,
         NEW yes \in Seq(B), NEW no \in Seq(B),
         Sound(Test(do, k, arg, yes, no), t)
  PROVE  Test(do, k, arg, yes, no) \in Nested(B, t)
  BY DEF Test, Nested


-----------------------------------------------------------------------------
(* The scripts are made of such statements.                                 *)

LEMMA KeyFacts ==
  /\ \A p \in Pkgs : Package(p) \in Keys
  /\ Builds \subseteq Keys
  /\ \A k \in Keys : k[1] \in Pkgs /\ Package(k[1]) \in Keys
                     /\ (k[2] # NoVer => k \in Builds)
  BY DEF Package, Keys, Builds

\* A statement that any task may execute.
Harmless == Rewrites \cup {"LOG", "name", "failed", "unyank", "yank", "exists", "binary"}

LEMMA HarmlessIsSound ==
  ASSUME NEW t, NEW s, s.do \in Harmless PROVE Sound(s, t)
  BY DEF Harmless, Rewrites, Sound

LEMMA HarmlessDo ==
  ASSUME NEW t, NEW do \in Harmless, NEW k \in Keys
  PROVE  /\ Do(do, k) \in Leaves(t)
         /\ <<Do(do, k)>> \in Seq(Leaves(t))
  <1>1. Do(do, k).do = do
    BY DEF Do, Test
  <1>2. do \in Calls
    BY DEF Harmless, Calls, Commands, Rewrites
  <1>3. Do(do, k) \in Leaves(t)
    BY <1>1, <1>2, HarmlessIsSound, DoIsLeaf
  <1> QED BY <1>3

LEMMA RewriteIsLeaves ==
  ASSUME NEW t, NEW cmd \in Rewrites, NEW k \in Keys
  PROVE  Rewrite(cmd, k) \in Seq(Leaves(t))
  BY KeyFacts, HarmlessDo DEF Rewrite, Harmless

LEMMA SkipIsLeaf ==
  ASSUME NEW t, NEW k \in Keys, NEW reason \in SkipReasons
  PROVE  /\ Test("skip", k, reason, <<>>, <<>>) \in Leaves(t)
         /\ <<Test("skip", k, reason, <<>>, <<>>)>> \in Seq(Leaves(t))
  <1>1. <<>> \in Seq({})
    BY EmptyInSeq
  <1>2. Test("skip", k, reason, <<>>, <<>>) \in Leaves(t)
    BY <1>1 DEF Test, Leaves, Nested, Calls, Args, Sound
  <1> QED BY <1>2

LEMMA RemovalIsLeaf ==
  ASSUME NEW t \in {"gazer", "piw-remove"}, NEW do \in {"DEL", "ack", "delete"}, NEW k \in Keys
  PROVE  Do(do, k) \in Leaves(t)
  <1>1. Sound(Do(do, k), t)
    BY DEF Sound, Do, Test
  <1>2. do \in Calls
    BY DEF Calls, Commands, OwnOps
  <1> QED BY <1>1, <1>2, DoIsLeaf

LEMMA AnnounceIsLeaves ==
  ASSUME NEW t \in {"gazer", "piw-remove"}, NEW k \in Keys
  PROVE  Announce(k) \in Seq(Leaves(t))
  BY RemovalIsLeaf DEF Announce

\* The statements of a removal.
LEMMA RemoveScriptSteps ==
  ASSUME NEW k \in Keys
  PROVE  /\ RemoveScript(k) \in Seq(Leaves("gazer"))
         /\ Len(RemoveScript(k)) = 4
         /\ RemoveScript(k)[1] = Test("skip", k, "deleted", <<>>, <<>>)
         /\ RemoveScript(k)[2] = Do("DEL", k)
         /\ RemoveScript(k)[3] = Do("ack", k)
         /\ RemoveScript(k)[4] = Do("delete", k)
  <1> DEFINE S == Leaves("gazer")
  <1>1. Test("skip", k, "deleted", <<>>, <<>>) \in S
    BY SkipIsLeaf DEF SkipReasons
  <1>2. Do("DEL", k) \in S /\ Do("ack", k) \in S /\ Do("delete", k) \in S
    BY RemovalIsLeaf
  <1>3. /\ Skip(k, "deleted") = Test("skip", k, "deleted", <<>>, <<>>)
        /\ DeleteRow(k) = Do("delete", k)
    BY DEF Skip, SkipPackage, SkipPackageVersion, DeleteRow, DeletePackageRow, DeleteVersionRow
  <1>4. ASSUME NEW T, NEW a \in T, NEW b \in T, NEW c \in T, NEW d \in T
        PROVE  /\ <<a>> \o <<b, c>> \o <<d>> \in Seq(T)
               /\ Len(<<a>> \o <<b, c>> \o <<d>>) = 4
               /\ (<<a>> \o <<b, c>> \o <<d>>)[1] = a
               /\ (<<a>> \o <<b, c>> \o <<d>>)[2] = b
               /\ (<<a>> \o <<b, c>> \o <<d>>)[3] = c
               /\ (<<a>> \o <<b, c>> \o <<d>>)[4] = d
    <2> DEFINE s == <<a>> \o <<b, c>>
    <2>1. <<a>> \in Seq(T) /\ <<b, c>> \in Seq(T)
      OBVIOUS
    <2>2. /\ s \in Seq(T) /\ Len(s) = 3
          /\ s[1] = a /\ s[2] = b /\ s[3] = c
      BY <2>1, ConcatProperties
    <2> HIDE DEF s
    <2> DEFINE u == <<d>>
    <2>3. u \in Seq(T) /\ Len(u) = 1 /\ u[1] = d
      OBVIOUS
    <2> HIDE DEF u
    <2>4. /\ s \o u \in Seq(T) /\ Len(s \o u) = 4
          /\ \A i \in 1..4 : (s \o u)[i] = IF i <= 3 THEN s[i] ELSE u[i - 3]
      <3>1. s \in Seq(T) /\ u \in Seq(T)
        BY <2>2, <2>3
      <3>2. /\ s \o u \in Seq(T) /\ Len(s \o u) = Len(s) + Len(u)
            /\ \A i \in 1..Len(s) + Len(u) :
                 (s \o u)[i] = IF i <= Len(s) THEN s[i] ELSE u[i - Len(s)]
        BY <3>1, ConcatProperties
      <3>3. Len(s) + Len(u) = 4
        BY <2>2, <2>3
      <3> QED BY <2>2, <3>2, <3>3
    <2>5. /\ (s \o u)[1] = a /\ (s \o u)[2] = b
          /\ (s \o u)[3] = c /\ (s \o u)[4] = d
      BY <2>2, <2>3, <2>4
    <2> QED BY <2>4, <2>5 DEF s, u
  <1> HIDE DEF S
  <1>5. RemoveScript(k) =
          <<Test("skip", k, "deleted", <<>>, <<>>)>> \o <<Do("DEL", k), Do("ack", k)>>
          \o <<Do("delete", k)>>
    BY <1>3 DEF RemoveScript, Announce
  <1> QED BY <1>1, <1>2, <1>4, <1>5 DEF S

LEMMA AddVerIsStatement ==
  ASSUME NEW t, NEW B, NEW k \in Builds, NEW reason \in SkipReasons,
         NEW yes \in Seq(B), NEW no \in Seq(B)
  PROVE  /\ AddNewPackageVersion(k, reason, yes, no) \in Nested(B, t)
         /\ <<AddNewPackageVersion(k, reason, yes, no)>> \in Seq(Nested(B, t))
  <1>1. AddNewPackageVersion(k, reason, yes, no) \in Nested(B, t)
    BY KeyFacts DEF AddNewPackageVersion, Test, Nested, Sound, Calls, Args
  <1> QED BY <1>1

LEMMA AddPkgIsStatement ==
  ASSUME NEW t, NEW B, NEW k \in Keys, NEW reason \in SkipReasons,
         NEW yes \in Seq(B), NEW no \in Seq(B)
  PROVE  /\ AddNewPackage(k, reason, yes, no) \in Nested(B, t)
         /\ <<AddNewPackage(k, reason, yes, no)>> \in Seq(Nested(B, t))
  <1>1. AddNewPackage(k, reason, yes, no) \in Nested(B, t)
    BY DEF AddNewPackage, Test, Nested, Sound, Calls, Args
  <1> QED BY <1>1

\* exists and binary
LEMMA QueryIsStatement ==
  ASSUME NEW t, NEW B, NEW k \in Keys, NEW do \in {"exists", "binary"},
         NEW yes \in Seq(B), NEW no \in Seq(B)
  PROVE  /\ Test(do, k, "", yes, no) \in Nested(B, t)
         /\ <<Test(do, k, "", yes, no)>> \in Seq(Nested(B, t))
  <1>1. Sound(Test(do, k, "", yes, no), t)
    BY HarmlessIsSound DEF Test, Harmless
  <1>2. do \in Calls /\ "" \in Args
    BY DEF Calls, Args, SkipReasons
  <1>3. Test(do, k, "", yes, no) \in Nested(B, t)
    BY <1>1, <1>2 DEF Test, Nested
  <1> HIDE DEF Test
  <1> QED BY <1>3, OneInSeq

LEMMA NameIsLeaf ==
  ASSUME NEW t, NEW p \in Pkgs PROVE <<AddPackageName(p)>> \in Seq(Leaves(t))
  BY HarmlessDo, KeyFacts DEF AddPackageName, Harmless

LEMMA EventKeys ==
  ASSUME NEW e \in PyPIEvents
  PROVE  /\ e.key \in Keys
         /\ e.action \in {"create", "source", "binary", "yank", "unyank", "remove"}
         /\ e.action \in {"binary", "yank", "unyank"} => e.key \in Builds
  BY KeyFacts DEF PyPIEvents

\* The statements of an event that does not remove anything: they are all about
\* its package.
EventCalls == Rewrites \cup {"addpkg", "addver", "skip", "name", "yank", "unyank", "binary"}
About(B, p) == {s \in Nested(B, "gazer") : s.do \in EventCalls /\ s.key[1] = p}
AboutLeaves(p) == About({}, p)
AboutTests(p) == About(AboutLeaves(p), p)
AboutAll(p) == About(AboutTests(p), p)

LEMMA AboutNesting ==
  ASSUME NEW p
  PROVE  /\ AboutLeaves(p) \subseteq AboutTests(p) /\ AboutTests(p) \subseteq AboutAll(p)
         /\ Seq(AboutLeaves(p)) \subseteq Seq(AboutTests(p))
         /\ Seq(AboutTests(p)) \subseteq Seq(AboutAll(p))
         /\ AboutAll(p) \subseteq Statements("gazer")
  <1>1. AboutLeaves(p) \subseteq AboutTests(p)
    BY NestedMonotone DEF AboutLeaves, AboutTests, About
  <1>2. AboutTests(p) \subseteq AboutAll(p)
    BY <1>1, NestedMonotone DEF AboutAll, AboutTests, About
  <1>3. AboutLeaves(p) \subseteq Leaves("gazer")
    BY DEF AboutLeaves, About, Leaves
  <1>4. AboutTests(p) \subseteq Tests("gazer")
    BY <1>3, NestedMonotone DEF AboutTests, About, Tests
  <1>5. AboutAll(p) \subseteq Statements("gazer")
    BY <1>4, NestedMonotone DEF AboutAll, About, Statements
  <1> QED BY <1>1, <1>2, <1>5, SeqMonotone

LEMMA AboutTest ==
  ASSUME NEW p, NEW B, NEW do \in EventCalls, NEW k \in Keys, k[1] = p, NEW arg \in SkipReasons,
         do = "addver" => k \in Builds, NEW yes \in Seq(B), NEW no \in Seq(B)
  PROVE  /\ Test(do, k, arg, yes, no) \in About(B, p)
         /\ <<Test(do, k, arg, yes, no)>> \in Seq(About(B, p))
  <1>1. Sound(Test(do, k, arg, yes, no), "gazer")
    BY DEF EventCalls, Rewrites, Test, Sound
  <1>2. do \in Calls /\ arg \in Args
    BY DEF EventCalls, Rewrites, Commands, Calls, Args
  <1>3. Test(do, k, arg, yes, no) \in About(B, p)
    BY <1>1, <1>2 DEF Test, Nested, About
  <1> HIDE DEF Test
  <1> QED BY <1>3, OneInSeq

LEMMA AboutDo ==
  ASSUME NEW p, NEW k \in Keys, k[1] = p, NEW do \in EventCalls \ {"addver"}
  PROVE  <<Do(do, k)>> \in Seq(AboutLeaves(p))
  BY AboutTest, EmptyInSeq DEF Do, AboutLeaves, SkipReasons

LEMMA AboutRewrite ==
  ASSUME NEW p, NEW k \in Keys, k[1] = p, NEW cmd \in Rewrites
  PROVE  Rewrite(cmd, k) \in Seq(AboutLeaves(p))
  <1>1. Package(k[1]) \in Keys /\ Package(k[1])[1] = p
    BY KeyFacts DEF Package
  <1>2. cmd \in EventCalls \ {"addver"}
    BY DEF Rewrites, EventCalls
  <1> QED BY <1>1, <1>2, AboutDo DEF Rewrite

LEMMA VersionScriptAbout ==
  ASSUME NEW e \in PyPIEvents, e.key[2] # NoVer
  PROVE  VersionScript(e) \in Seq(AboutAll(e.key[1]))
  <1> DEFINE k == e.key
             p == k[1]
  <1>1. k \in Builds /\ k \in Keys
    BY EventKeys, KeyFacts
  <1>2. \A cmd \in Rewrites : Rewrite(cmd, k) \in Seq(AboutLeaves(p))
    BY <1>1, AboutRewrite
  <1>3. CASE e.action \in {"yank", "unyank"}
    <2>1. <<Mark(e)>> \in Seq(AboutLeaves(p))
      <3>1. "yank" \in EventCalls \ {"addver"} /\ "unyank" \in EventCalls \ {"addver"}
        BY DEF EventCalls, Rewrites
      <3>2. <<Do("yank", k)>> \in Seq(AboutLeaves(p)) /\ <<Do("unyank", k)>> \in Seq(AboutLeaves(p))
        BY <1>1, <3>1, AboutDo
      <3> QED BY <3>2 DEF Mark, YankVersion, UnyankVersion
    <2>2. <<Mark(e)>> \o Rewrite("BOTH", k) \in Seq(AboutLeaves(p))
      BY <1>2, <2>1, ConcatInSeq DEF Rewrites
    <2> QED BY <1>3, <2>2, AboutNesting DEF VersionScript
  <1>4. CASE e.action = "source"
    <2>1. <<SkipPackageVersion(k, "")>> \in Seq(AboutLeaves(p))
      BY <1>1, AboutTest, EmptyInSeq DEF SkipPackageVersion, SkipReasons, EventCalls, AboutLeaves
    <2>2. <<SkipPackageVersion(k, "")>> \o Rewrite("PROJECT", k) \in Seq(AboutLeaves(p))
      BY <1>2, <2>1, ConcatInSeq DEF Rewrites
    <2>3. <<IfBinaryOnly(k, <<SkipPackageVersion(k, "")>> \o Rewrite("PROJECT", k),
                         Rewrite("BOTH", k))>> \in Seq(AboutTests(p))
      <3>1. "binary" \in EventCalls /\ "" \in SkipReasons
        BY DEF EventCalls, SkipReasons
      <3> QED BY <1>1, <1>2, <2>2, <3>1, AboutTest DEF IfBinaryOnly, AboutTests, Rewrites
    <2>4. Rewrite("BOTH", k) \in Seq(AboutTests(p))
      BY <1>2, AboutNesting DEF Rewrites
    <2>5. "addver" \in EventCalls /\ "" \in SkipReasons
      BY DEF EventCalls, SkipReasons
    <2> HIDE DEF p
    <2>6. k[1] = p
      BY DEF p
    <2> QED BY <1>1, <1>4, <2>3, <2>4, <2>5, <2>6, AboutTest
            DEF VersionScript, AddNewPackageVersion, AboutAll
  <1>5. CASE e.action \notin {"yank", "unyank", "source"}
    <2>1. Rewrite("BOTH", k) \in Seq(AboutTests(p))
      BY <1>2, AboutNesting DEF Rewrites
    <2>2. "addver" \in EventCalls /\ "binary only" \in SkipReasons
      BY DEF EventCalls, SkipReasons
    <2> QED BY <1>1, <1>5, <2>1, <2>2, AboutTest DEF VersionScript, AddNewPackageVersion, AboutAll
  <1> QED BY <1>3, <1>4, <1>5

LEMMA EventScriptAbout ==
  ASSUME NEW e \in PyPIEvents, NEW known, e.action # "remove"
  PROVE  EventScript(e, known) \in Seq(AboutAll(e.key[1]))
  <1> DEFINE k == e.key
             p == Package(k[1])
             S == AboutAll(k[1])
             name == <<AddPackageName(k[1])>>
             new == <<AddNewPackage(p, "", name \o Rewrite("BOTH", p), <<>>)>>
             first == IF k[1] \in known THEN <<>> ELSE new
             last == IF k[2] = NoVer THEN <<>> ELSE VersionScript(e)
  <1>1. k \in Keys /\ p \in Keys /\ p[1] = k[1]
    BY EventKeys, KeyFacts DEF Package
  <1>2. name \in Seq(AboutLeaves(k[1]))
    <2>1. "name" \in EventCalls \ {"addver"}
      BY DEF EventCalls
    <2> QED BY <1>1, <2>1, AboutDo DEF AddPackageName
  <1>3. new \in Seq(S)
    <2>1. name \o Rewrite("BOTH", p) \in Seq(AboutLeaves(k[1]))
      BY <1>1, <1>2, AboutRewrite, ConcatInSeq DEF Rewrites
    <2>2. "addpkg" \in EventCalls /\ "" \in SkipReasons /\ <<>> \in Seq(AboutLeaves(k[1]))
      BY EmptyInSeq DEF EventCalls, SkipReasons
    <2>3. new \in Seq(AboutTests(k[1]))
      BY <1>1, <2>1, <2>2, AboutTest DEF AddNewPackage, AboutTests
    <2> QED BY <2>3, AboutNesting
  <1>4. first \in Seq(S)
    BY <1>3, EmptyInSeq
  <1>5. last \in Seq(S)
    BY VersionScriptAbout, EmptyInSeq
  <1>6. name \in Seq(S)
    BY <1>2, AboutNesting
  <1>7. first \o name \o last \in Seq(S)
    BY <1>4, <1>5, <1>6, ConcatInSeq
  <1> QED BY <1>7 DEF EventScript

LEMMA EventScriptType ==
  ASSUME NEW e \in PyPIEvents, NEW known
  PROVE  EventScript(e, known) \in Seq(Statements("gazer"))
  <1>1. CASE e.action = "remove"
    BY <1>1, EventKeys, RemoveScriptSteps, NestingSeq DEF EventScript
  <1>2. CASE e.action # "remove"
    <2>1. EventScript(e, known) \in Seq(AboutAll(e.key[1]))
      BY <1>2, EventScriptAbout
    <2> QED BY <2>1, AboutNesting, SeqMonotone
  <1> QED BY <1>1, <1>2

-----------------------------------------------------------------------------
(* MrChase's.                                                               *)

LEMMA RequestFacts ==
  ASSUME NEW r \in ChaseRequests
  PROVE  /\ r.tool \in Tools /\ r.key \in Keys
         /\ r.tool = "piw-import" => r.key \in Builds
         /\ r.tool = "piw-rebuild" => r.options \cap {"PROJECT", "BOTH"} # {}
         /\ r.tool = "piw-rebuild" => r.options \subseteq {"PROJECT", "BOTH", "all"}
  <1>1. CASE r \in AddRequests
    BY <1>1 DEF AddRequests, Tools
  <1>2. CASE r \in RemoveRequests
    BY <1>2, KeyFacts DEF RemoveRequests, Tools
  <1>3. CASE r \in RebuildRequests
    <2>1. /\ r.tool = "piw-rebuild"
          /\ \E p \in Pkgs : r.key = Package(p)
          /\ \E o \in SUBSET {"all"}, cmd \in {"PROJECT", "BOTH"} : r.options = o \cup {cmd}
      BY <1>3 DEF RebuildRequests
    <2> QED BY <2>1, KeyFacts DEF Tools
  <1>4. CASE r \in ImportRequests
    BY <1>4, KeyFacts DEF ImportRequests, Tools
  <1> QED BY <1>1, <1>2, <1>3, <1>4 DEF ChaseRequests

LEMMA ReplyIsLeaf ==
  ASSUME NEW t \in Tools, NEW m \in {"DONE", "ERROR"}, NEW code \in Args, NEW k \in Keys,
         Understands(t, m, code)
  PROVE  <<Test(m, k, code, <<>>, <<>>)>> \in Seq(Leaves(t))
  <1>1. <<>> \in Seq({})
    BY EmptyInSeq
  <1>2. Sound(Test(m, k, code, <<>>, <<>>), t)
    BY DEF Test, Sound
  <1>3. m \in Calls
    BY DEF Calls, OwnOps
  <1>4. Test(m, k, code, <<>>, <<>>) \in Leaves(t)
    BY <1>1, <1>2, <1>3 DEF Test, Leaves, Nested
  <1> QED BY <1>4, OneInSeq

\* The codes that each tool may be answered with.
LEMMA AddReplies ==
  /\ \A code \in {"NEWPKG", "UPDPKG", "NEWVER", "UPDVER"} :
       code \in Args /\ Understands("piw-add", "DONE", code)
  /\ \A code \in {"NOPKG", "SKIPPKG", "SKIPVER", "YANKVER"} :
       code \in Args /\ Understands("piw-add", "ERROR", code)
  <1>1. /\ \A code : Understands("piw-add", "DONE", code) <=> code \in AddUnderstands["DONE"]
        /\ \A code : Understands("piw-add", "ERROR", code) <=> code \in AddUnderstands["ERROR"]
    BY DEF Understands
  <1>2. /\ AddUnderstands["DONE"] = {"NEWPKG", "UPDPKG", "NEWVER", "UPDVER"}
        /\ AddUnderstands["ERROR"] = {"NOPKG", "SKIPPKG", "SKIPVER", "YANKVER"}
    BY DEF AddUnderstands
  <1> QED BY <1>1, <1>2 DEF Args

LEMMA RemoveReplies ==
  /\ \A code \in {"DELPKG", "DELVER", "DELPKGBLD", "DELVERBLD", "SKIPPKG", "SKIPVER", "YANKVER"} :
       code \in Args /\ Understands("piw-remove", "DONE", code)
  /\ \A code \in {"NOPKG", "NOVER"} :
       code \in Args /\ Understands("piw-remove", "ERROR", code)
  <1>1. /\ \A code : Understands("piw-remove", "DONE", code) <=> code \in RemoveUnderstands["DONE"]
        /\ \A code : Understands("piw-remove", "ERROR", code) <=> code \in RemoveUnderstands["ERROR"]
    BY DEF Understands
  <1>2. /\ RemoveUnderstands["DONE"] = {"DELPKG", "DELVER", "DELPKGBLD", "DELVERBLD",
                                         "SKIPPKG", "SKIPVER", "YANKVER"}
        /\ RemoveUnderstands["ERROR"] = {"NOPKG", "NOVER"}
    BY DEF RemoveUnderstands
  <1> QED BY <1>1, <1>2 DEF Args

LEMMA OtherReplies ==
  ASSUME NEW t \in {"piw-rebuild", "piw-import"}, NEW m \in {"DONE", "ERROR"}, NEW code
  PROVE  Understands(t, m, code)
  BY DEF Understands

LEMMA WhenInSeq ==
  ASSUME NEW S, NEW s \in Seq(S), NEW given
  PROVE  When(given, s) \in Seq(S)
  BY EmptyInSeq DEF When

LEMMA DoRemovePackageType ==
  ASSUME NEW r \in ChaseRequests, r.tool = "piw-remove"
  PROVE  DoRemovePackage(r) \in Seq(Statements("piw-remove"))
  <1> DEFINE k == r.key
             L == Leaves("piw-remove")
             code == IF r.options = {} THEN "DELPKG"
                     ELSE IF "builds" \in r.options THEN "DELPKGBLD" ELSE "SKIPPKG"
             first == IF r.options = {} THEN <<DeletePackageRow(k)>>
                      ELSE When("skip" \in r.options, <<SkipPackage(k, "by hand")>>)
                           \o When("builds" \in r.options, <<Do("releases", k)>>)
  <1>1. k \in Keys /\ "piw-remove" \in Tools
    BY RequestFacts DEF Tools
  <1>2. <<DeletePackageRow(k)>> \in Seq(L)
    BY <1>1, RemovalIsLeaf DEF DeletePackageRow
  <1>3. <<SkipPackage(k, "by hand")>> \in Seq(L)
    BY <1>1, SkipIsLeaf DEF SkipPackage, SkipReasons
  <1>4. <<Do("releases", k)>> \in Seq(L)
    <2>1. Sound(Do("releases", k), "piw-remove")
      BY DEF Do, Test, Sound
    <2>2. "releases" \in Calls
      BY DEF Calls
    <2> QED BY <1>1, <2>1, <2>2, DoIsLeaf
  <1>5. first \in Seq(L)
    BY <1>2, <1>3, <1>4, WhenInSeq, ConcatInSeq
  <1>6. Announce(k) \in Seq(L)
    BY <1>1, AnnounceIsLeaves
  <1>7. Done(code, k) \in Seq(L)
    BY <1>1, RemoveReplies, ReplyIsLeaf DEF Done
  <1>8. Error("NOPKG", k) \in Seq(L)
    BY <1>1, RemoveReplies, ReplyIsLeaf DEF Error
  <1> HIDE DEF first, code, L
  <1>9. first \o Announce(k) \o Done(code, k) \in Seq(L)
    BY <1>5, <1>6, <1>7, ConcatInSeq
  <1>10. <<TestPackage(k, first \o Announce(k) \o Done(code, k), Error("NOPKG", k))>>
           \in Seq(Tests("piw-remove"))
    BY <1>1, <1>8, <1>9, QueryIsStatement DEF TestPackage, Tests, L
  <1> QED BY <1>10, NestingSeq DEF DoRemovePackage, first, code

LEMMA DoRemoveVersionType ==
  ASSUME NEW r \in ChaseRequests, r.tool = "piw-remove"
  PROVE  DoRemoveVersion(r) \in Seq(Statements("piw-remove"))
  <1> DEFINE k == r.key
             L == Leaves("piw-remove")
             code == IF "builds" \in r.options THEN "DELVERBLD"
                     ELSE IF "yank" \in r.options THEN "YANKVER"
                     ELSE IF "skip" \in r.options THEN "SKIPVER" ELSE "DELVER"
             skip == When("skip" \in r.options, <<SkipPackageVersion(k, "by hand")>>)
             yank == When("yank" \in r.options, <<YankVersion(k)>> \o Rewrite("BOTH", k))
             builds == When("builds" \in r.options, <<DeleteBuild(k)>>)
             first == IF r.options = {} THEN <<DeleteVersionRow(k)>>
                      ELSE skip \o yank \o builds
             announce == When(code # "YANKVER", Announce(k))
  <1>1. k \in Keys /\ "piw-remove" \in Tools
    BY RequestFacts DEF Tools
  <1>2. <<DeleteVersionRow(k)>> \in Seq(L)
    BY <1>1, RemovalIsLeaf DEF DeleteVersionRow
  <1>3. skip \in Seq(L)
    BY <1>1, SkipIsLeaf, WhenInSeq DEF SkipPackageVersion, SkipReasons
  <1>4. builds \in Seq(L)
    <2>1. Sound(DeleteBuild(k), "piw-remove")
      BY DEF DeleteBuild, Do, Test, Sound
    <2>2. "delbuilds" \in Calls
      BY DEF Calls
    <2>3. <<DeleteBuild(k)>> \in Seq(L)
      BY <1>1, <2>1, <2>2, DoIsLeaf DEF DeleteBuild
    <2> QED BY <2>3, WhenInSeq
  <1>5. yank \in Seq(L)
    <2>1. <<YankVersion(k)>> \in Seq(L)
      BY <1>1, HarmlessDo DEF YankVersion, Harmless
    <2>2. Rewrite("BOTH", k) \in Seq(L)
      BY <1>1, RewriteIsLeaves DEF Rewrites
    <2> QED BY <2>1, <2>2, ConcatInSeq, WhenInSeq
  <1>6. announce \in Seq(L)
    BY <1>1, AnnounceIsLeaves, WhenInSeq
  <1>7. Done(code, k) \in Seq(L)
    BY <1>1, RemoveReplies, ReplyIsLeaf DEF Done
  <1>8. Error("NOVER", k) \in Seq(L)
    BY <1>1, RemoveReplies, ReplyIsLeaf DEF Error
  <1> HIDE DEF skip, yank, builds, code, L, announce
  <1>9. first \in Seq(L)
    BY <1>2, <1>3, <1>4, <1>5, ConcatInSeq
  <1> HIDE DEF first
  <1>10. first \o announce \o Done(code, k) \in Seq(L)
    BY <1>6, <1>7, <1>9, ConcatInSeq
  <1>11. <<TestPackageVersion(k, first \o announce \o Done(code, k), Error("NOVER", k))>>
           \in Seq(Tests("piw-remove"))
    BY <1>1, <1>8, <1>10, QueryIsStatement DEF TestPackageVersion, Tests, L
  <1> QED BY <1>11, NestingSeq DEF DoRemoveVersion, first, code, skip, yank, builds, announce

LEMMA SkipReasonType == ASSUME NEW r PROVE SkipReason(r) \in SkipReasons
  BY DEF SkipReason, SkipReasons

LEMMA DoAddPackageType ==
  ASSUME NEW r \in ChaseRequests, r.tool = "piw-add"
  PROVE  DoAddPackage(r) \in Seq(Statements("piw-add"))
  <1> DEFINE k == r.key
             L == Leaves("piw-add")
             names == <<AddPackageName(k[1])>>
             unskip == When("unskip" \in r.options, <<SkipPackage(k, "")>>)
             yes == names \o Rewrite("BOTH", k) \o Done("NEWPKG", k)
             no == IF "skip" \in r.options THEN Error("SKIPPKG", k)
                   ELSE unskip \o names \o Rewrite("PROJECT", k) \o Done("UPDPKG", k)
  <1>1. k \in Keys /\ k[1] \in Pkgs /\ "piw-add" \in Tools
    BY RequestFacts, KeyFacts DEF Tools
  <1>2. names \in Seq(L)
    BY <1>1, NameIsLeaf
  <1>3. unskip \in Seq(L)
    BY <1>1, SkipIsLeaf, WhenInSeq DEF SkipPackage, SkipReasons
  <1>4. Rewrite("BOTH", k) \in Seq(L) /\ Rewrite("PROJECT", k) \in Seq(L)
    BY <1>1, RewriteIsLeaves DEF Rewrites
  <1>5. Done("NEWPKG", k) \in Seq(L) /\ Done("UPDPKG", k) \in Seq(L)
    BY <1>1, AddReplies, ReplyIsLeaf DEF Done
  <1>6. Error("SKIPPKG", k) \in Seq(L)
    BY <1>1, AddReplies, ReplyIsLeaf DEF Error
  <1> HIDE DEF L, names, unskip
  <1>7. yes \in Seq(L)
    BY <1>2, <1>4, <1>5, ConcatInSeq
  <1>8. no \in Seq(L)
    <2>1. unskip \o names \o Rewrite("PROJECT", k) \o Done("UPDPKG", k) \in Seq(L)
      BY <1>2, <1>3, <1>4, <1>5, ConcatInSeq
    <2> QED BY <1>6, <2>1
  <1> HIDE DEF yes, no
  <1>9. <<AddNewPackage(k, SkipReason(r), yes, no)>> \in Seq(Tests("piw-add"))
    BY <1>1, <1>7, <1>8, SkipReasonType, AddPkgIsStatement DEF Tests, L
  <1> QED BY <1>9, NestingSeq DEF DoAddPackage, yes, no, names, unskip

LEMMA DoAddVersionType ==
  ASSUME NEW r \in ChaseRequests, r.tool = "piw-add", r.key[2] # NoVer
  PROVE  DoAddVersion(r) \in Seq(Statements("piw-add"))
  <1> DEFINE k == r.key
             L == Leaves("piw-add")
             names == <<AddPackageName(k[1])>>
             yank == When("yank" \in r.options, <<YankVersion(k)>>)
             unskip == When("unskip" \in r.options, <<SkipPackageVersion(k, "")>>)
             unyank == When("unyank" \in r.options, <<UnyankVersion(k)>>)
             new == yank \o names \o Rewrite("PROJECT", k) \o Done("NEWVER", k)
             known == IF "yank" \in r.options THEN Error("YANKVER", k)
                      ELSE unyank \o names \o Rewrite("BOTH", k) \o Done("UPDVER", k)
             update == IF "skip" \in r.options THEN Error("SKIPVER", k)
                       ELSE unskip \o known
  <1>1. k \in Keys /\ k[1] \in Pkgs /\ k \in Builds /\ Package(k[1]) \in Keys /\ "piw-add" \in Tools
    BY RequestFacts, KeyFacts DEF Tools
  <1>2. names \in Seq(L)
    BY <1>1, NameIsLeaf
  <1>3. unskip \in Seq(L)
    BY <1>1, SkipIsLeaf, WhenInSeq DEF SkipPackageVersion, SkipReasons
  <1>4. Rewrite("BOTH", k) \in Seq(L) /\ Rewrite("PROJECT", k) \in Seq(L)
    BY <1>1, RewriteIsLeaves DEF Rewrites
  <1>5. Done("NEWVER", k) \in Seq(L) /\ Done("UPDVER", k) \in Seq(L)
    BY <1>1, AddReplies, ReplyIsLeaf DEF Done
  <1>6. Error("SKIPVER", k) \in Seq(L) /\ Error("YANKVER", k) \in Seq(L) /\ Error("NOPKG", k) \in Seq(L)
    BY <1>1, AddReplies, ReplyIsLeaf DEF Error
  <1>7. yank \in Seq(L) /\ unyank \in Seq(L)
    BY <1>1, HarmlessDo, WhenInSeq DEF YankVersion, UnyankVersion, Harmless
  <1> HIDE DEF L, names, unskip, yank, unyank
  <1>8. new \in Seq(L)
    BY <1>2, <1>4, <1>5, <1>7, ConcatInSeq
  <1>9. known \in Seq(L)
    <2>1. unyank \o names \o Rewrite("BOTH", k) \o Done("UPDVER", k) \in Seq(L)
      BY <1>2, <1>4, <1>5, <1>7, ConcatInSeq
    <2> QED BY <1>6, <2>1
  <1> HIDE DEF new, known
  <1>10. update \in Seq(L)
    BY <1>3, <1>6, <1>9, ConcatInSeq
  <1> HIDE DEF update
  <1>11. <<AddNewPackageVersion(k, SkipReason(r), new, update)>> \in Seq(Tests("piw-add"))
    BY <1>1, <1>8, <1>10, SkipReasonType, AddVerIsStatement DEF Tests, L
  <1>12. Error("NOPKG", k) \in Seq(Tests("piw-add"))
    BY <1>6, NestingSeq DEF L
  <1>13. <<TestPackage(Package(k[1]), <<AddNewPackageVersion(k, SkipReason(r), new, update)>>,
                       Error("NOPKG", k))>> \in Seq(Statements("piw-add"))
    BY <1>1, <1>11, <1>12, QueryIsStatement DEF TestPackage, Statements
  <1> QED BY <1>13 DEF DoAddVersion, new, update, known, names, unskip, yank, unyank

LEMMA SetToSeqType ==
  ASSUME NEW S, IsFiniteSet(S)
  PROVE  /\ Cardinality(S) \in Nat
         /\ SetToSeq(S) \in [1..Cardinality(S) -> S]
  <1>1. Cardinality(S) \in Nat /\ ExistsBijection(1..Cardinality(S), S)
    BY FS_CardinalityType
  <1>2. \E f \in [1..Cardinality(S) -> S] : IsInjective(f)
    <2>1. PICK f : f \in Bijection(1..Cardinality(S), S)
      BY <1>1 DEF ExistsBijection
    <2>2. f \in [1..Cardinality(S) -> S] /\ IsInjective(f)
      BY <2>1 DEF Bijection, Injection, IsInjective
    <2> QED BY <2>2
  <1>3. SetToSeq(S) \in [1..Cardinality(S) -> S]
    BY <1>2 DEF SetToSeq
  <1> QED BY <1>1, <1>3

LEMMA FunctionIsSeq ==
  ASSUME NEW S, NEW n \in Nat, NEW f \in [1..n -> S]
  PROVE  f \in Seq(S)
  OBVIOUS

LEMMA DoRebuildType ==
  ASSUME NEW r \in ChaseRequests, r.tool = "piw-rebuild",
         db.pkgs \subseteq Pkgs, IsFiniteSet(db.pkgs)
  PROVE  DoRebuild(r) \in Seq(Statements("piw-rebuild"))
  <1> DEFINE k == r.key
             L == Leaves("piw-rebuild")
             cmd == CHOOSE c \in r.options : c # "all"
             done == Done("REBUILD", k)
             n == Cardinality(db.pkgs)
             every == [i \in 1..n |-> Do(cmd, Package(SetToSeq(db.pkgs)[i]))]
  <1>1. k \in Keys /\ "piw-rebuild" \in Tools
    BY RequestFacts DEF Tools
  <1>2. cmd \in Rewrites
    <2>1. \E c \in r.options : c # "all"
      BY RequestFacts
    <2>2. cmd \in r.options /\ cmd # "all"
      BY <2>1
    <2> QED BY <2>2, RequestFacts DEF Rewrites
  <1>3. done \in Seq(L)
    <2>1. "REBUILD" \in Args
      BY DEF Args
    <2> QED BY <1>1, <2>1, OtherReplies, ReplyIsLeaf DEF Done
  <1>4. Error("unknown package", k) \in Seq(L)
    <2>1. "unknown package" \in Args
      BY DEF Args
    <2> QED BY <1>1, <2>1, OtherReplies, ReplyIsLeaf DEF Error
  <1> HIDE DEF cmd, done, L
  <1>5. every \in Seq(L)
    <2>1. n \in Nat /\ SetToSeq(db.pkgs) \in [1..n -> db.pkgs]
      BY SetToSeqType
    <2>2. ASSUME NEW i \in 1..n PROVE Do(cmd, Package(SetToSeq(db.pkgs)[i])) \in L
      <3>1. SetToSeq(db.pkgs)[i] \in Pkgs
        BY <2>1
      <3>2. cmd \in Harmless
        BY <1>2 DEF Harmless
      <3> QED BY <3>1, <3>2, KeyFacts, HarmlessDo DEF L
    <2>3. every \in [1..n -> L]
      BY <2>2
    <2> QED BY <2>1, <2>3, FunctionIsSeq
  <1>6. CASE "all" \in r.options
    <2>1. every \o done \in Seq(L)
      BY <1>3, <1>5, ConcatInSeq
    <2> QED BY <1>6, <2>1, NestingSeq DEF DoRebuild, cmd, done, L
  <1>7. CASE "all" \notin r.options
    <2>1. Rewrite(cmd, k) \o done \in Seq(L)
      BY <1>1, <1>2, <1>3, RewriteIsLeaves, ConcatInSeq DEF L
    <2>2. <<TestPackage(k, Rewrite(cmd, k) \o done, Error("unknown package", k))>>
            \in Seq(Tests("piw-rebuild"))
      BY <1>1, <1>4, <2>1, QueryIsStatement DEF TestPackage, Tests, L
    <2> QED BY <1>7, <2>2, NestingSeq DEF DoRebuild, cmd, done
  <1> QED BY <1>6, <1>7

LEMMA ImportErrors ==
  ASSUME NEW k \in Keys
  PROVE  /\ Error("invalid ABI", k) \in Seq(Leaves("piw-import"))
         /\ Error("unknown version", k) \in Seq(Leaves("piw-import"))
         /\ Error("failed to log build", k) \in Seq(Leaves("piw-import"))
         /\ Done("IMPORT", k) \in Seq(Leaves("piw-import"))
  <1>1. {"invalid ABI", "unknown version", "failed to log build", "IMPORT"} \subseteq Args
    BY DEF Args
  <1>2. "piw-import" \in Tools
    BY DEF Tools
  <1> QED BY <1>1, <1>2, OtherReplies, ReplyIsLeaf DEF Error, Done

LEMMA LoggedIsLeaf ==
  ASSUME NEW t \in {"piw-import", "driver"}, NEW b \in Builds
  PROVE  <<LogBuild(b, TRUE)>> \in Seq(Leaves(t))
  <1>1. Sound(Do("logged", b), t)
    BY DEF Do, Test, Sound
  <1>2. "logged" \in Calls
    BY DEF Calls
  <1> QED BY <1>1, <1>2, KeyFacts, DoIsLeaf, OneInSeq DEF LogBuild

LEMMA DoImportType ==
  ASSUME NEW r \in ChaseRequests, r.tool = "piw-import"
  PROVE  DoImport(r) \in Seq(Statements("piw-import"))
  <1> DEFINE k == r.key
             L == Leaves("piw-import")
  <1>1. k \in Keys /\ k \in Builds
    BY RequestFacts, KeyFacts
  <1>2. CASE "bad abi" \in r.options
    BY <1>1, <1>2, ImportErrors, NestingSeq DEF DoImport
  <1>3. CASE "bad abi" \notin r.options
    <2>1. Do("expect", k) \in L
      <3>1. Sound(Do("expect", k), "piw-import")
        BY <1>1 DEF Do, Test, Sound
      <3>2. "expect" \in Calls
        BY DEF Calls, OwnOps
      <3> QED BY <1>1, <3>1, <3>2, DoIsLeaf
    <2>2. LogBuild(k, TRUE) \in L
      <3>1. Sound(LogBuild(k, TRUE), "piw-import")
        BY DEF LogBuild, Do, Test, Sound
      <3>2. "logged" \in Calls
        BY DEF Calls
      <3> QED BY <1>1, <3>1, <3>2, DoIsLeaf DEF LogBuild
    <2> HIDE DEF L
    <2>3. <<LogBuild(k, TRUE), Do("expect", k)>> \in Seq(L)
      BY <2>1, <2>2, TwoInSeq
    <2>4. <<TestPackageVersion(k, <<LogBuild(k, TRUE), Do("expect", k)>>,
                               Error("unknown version", k))>> \in Seq(Tests("piw-import"))
      BY <1>1, <2>3, ImportErrors, QueryIsStatement DEF TestPackageVersion, Tests, L
    <2> QED BY <1>3, <2>4, NestingSeq DEF DoImport
  <1> QED BY <1>2, <1>3

LEMMA ChaseScriptType ==
  ASSUME NEW r \in ChaseRequests, db.pkgs \subseteq Pkgs, IsFiniteSet(db.pkgs)
  PROVE  ChaseScript(r) \in Seq(Statements(r.tool))
  <1>1. r.tool \in Tools
    BY RequestFacts
  <1>2. CASE r.tool = "piw-remove" /\ r.key[2] = NoVer
    BY <1>2, DoRemovePackageType DEF ChaseScript
  <1>3. CASE r.tool = "piw-remove" /\ r.key[2] # NoVer
    BY <1>3, DoRemoveVersionType DEF ChaseScript
  <1>4. CASE r.tool = "piw-add" /\ r.key[2] = NoVer
    BY <1>4, DoAddPackageType DEF ChaseScript
  <1>5. CASE r.tool = "piw-add" /\ r.key[2] # NoVer
    BY <1>5, DoAddVersionType DEF ChaseScript
  <1>6. CASE r.tool = "piw-rebuild"
    BY <1>6, DoRebuildType DEF ChaseScript
  <1>7. CASE r.tool = "piw-import"
    BY <1>7, DoImportType DEF ChaseScript
  <1> QED BY <1>1, <1>2, <1>3, <1>4, <1>5, <1>6, <1>7 DEF Tools

LEMMA DoSentType ==
  ASSUME NEW b \in Builds
  PROVE  DoSent(b) \in Seq(Statements("piw-import"))
  <1>1. b \in Keys
    BY KeyFacts
  <1>2. <<Do("LOG", b)>> \in Seq(Leaves("piw-import"))
    BY <1>1, HarmlessDo DEF Harmless
  <1>3. Rewrite("BOTH", b) \in Seq(Leaves("piw-import"))
    BY <1>1, RewriteIsLeaves DEF Rewrites
  <1>4. Done("IMPORT", b) \in Seq(Leaves("piw-import"))
    BY <1>1, ImportErrors
  <1> QED BY <1>2, <1>3, <1>4, ConcatInSeq, NestingSeq DEF DoSent

\* What SlaveDriver does for a build that has ended.
LEMMA BuildScriptType ==
  ASSUME NEW b \in Builds, NEW status \in BOOLEAN, NEW cmd \in Rewrites
  PROVE  <<LogBuild(b, status), Do("LOG", b)>> \o Rewrite(cmd, b) \in Seq(Statements("driver"))
  <1>1. b \in Keys
    BY KeyFacts
  <1>2. Do("LOG", b) \in Leaves("driver")
    BY <1>1, HarmlessDo DEF Harmless
  <1>3. LogBuild(b, status) \in Leaves("driver")
    <2>1. Sound(LogBuild(b, status), "driver")
      BY DEF LogBuild, Do, Test, Sound
    <2>2. {"logged", "failed"} \subseteq Calls
      BY DEF Calls
    <2> QED BY <1>1, <2>1, <2>2, DoIsLeaf DEF LogBuild
  <1>4. <<LogBuild(b, status), Do("LOG", b)>> \in Seq(Leaves("driver"))
    BY <1>2, <1>3
  <1> QED BY <1>1, <1>4, RewriteIsLeaves, ConcatInSeq, NestingSeq

-----------------------------------------------------------------------------
(* The types, strengthened to what is inductive.                            *)

\* Each row of the database was put there by a statement: they are finite, so
\* that a loop over them ends.
RowsOK ==
  /\ CatalogueTypeOK
  /\ IsFiniteSet(db.pkgs) /\ IsFiniteSet(db.vers)

\* What is stored names each package once, too.
BufferOK ==
  /\ buffer \in Seq(Pkgs) /\ IsInjective(buffer)
  /\ ToSet(buffer) = DOMAIN commands
  /\ commands \in [DOMAIN commands -> Rewrites]
SavedOK ==
  /\ saved \in Seq(Pkgs \X Rewrites)
  /\ \A i, j \in 1..Len(saved) : saved[i][1] = saved[j][1] => i = j

\* The task that TheScribe works for is waiting with that very request.
ServingOK ==
  /\ serving \in (Clients \cup {Itself}) \X Commands \X Keys \cup {<<>>}
  /\ ~Idle /\ Client \in Clients =>
       /\ todo[Client] # <<>>
       /\ Current(Client).do = Command /\ Current(Client).key = Key

PagesOK ==
  /\ stage \in {"start", "read", "write"}
  /\ data = NoData \/ data \subseteq Releases
  /\ stage = "write" => data \subseteq Releases
  /\ stage # "start" => /\ ~Idle
                        /\ \/ Command \in Rewrites
                           \/ Command = "DEL" /\ Key[2] # NoVer
  /\ wheels \subseteq Builds
  /\ simple \in [Pkgs -> {NoPage} \cup SUBSET (Vers \X BOOLEAN)]
  /\ project \in [Pkgs -> {NoPage} \cup SUBSET Releases]
  /\ index \subseteq Pkgs /\ cache \subseteq Pkgs

\* Whose statements the task executes.
Doer(c) == IF c = "chase" THEN asker ELSE c

ScriptsOK ==
  /\ DOMAIN todo = Clients
  /\ \A c \in Clients : todo[c] \in Seq(Statements(Doer(c)))

TasksOK ==
  /\ event \in PyPIEvents \cup {NoEvent} /\ published \subseteq Keys
  /\ packages \subseteq Pkgs /\ late \subseteq Pkgs /\ halfdone \subseteq Pkgs
  /\ sending \subseteq Builds /\ excluded \subseteq Builds /\ importing \subseteq Builds
  /\ acked \subseteq Clients /\ dead \subseteq Clients
  /\ touched \in BOOLEAN
  /\ asker \in {""} \cup world.requests
  /\ importing # {} => "piw-import" \in world.requests
  /\ world \in Worlds
  /\ spent \in [events : 0..world.maxEvents, requests : 0..world.maxRequests,
               faults : 0..world.maxFaults]

TypeInv ==
  RowsOK /\ BufferOK /\ SavedOK /\ ServingOK /\ PagesOK /\ ScriptsOK /\ TasksOK

LEMMA WorldFacts ==
  ASSUME NEW w \in Worlds
  PROVE  /\ w.requests \subseteq Tools
         /\ w.maxEvents \in Nat /\ w.maxRequests \in Nat /\ w.maxFaults \in Nat
         /\ w.punctual \in BOOLEAN
  BY WebsiteAssumption DEF World, Tools

LEMMA TypeInvImplies == TypeInv => TypeOK
  <1> SUFFICES ASSUME TypeInv PROVE TypeOK
    OBVIOUS
  <1> USE DEF TypeInv
  <1>1. SecretaryTypeOK
    <2>1. DOMAIN commands \subseteq Pkgs
      BY DEF BufferOK, ToSet
    <2>2. commands \in UNION {[P -> Rewrites] : P \in SUBSET Pkgs}
      BY <2>1 DEF BufferOK
    <2> QED BY <2>2 DEF BufferOK, SavedOK, ServingOK, SecretaryTypeOK
  <1>2. ScribeTypeOK
    BY DEF PagesOK, ScribeTypeOK
  <1>3. ToolsUnderstand
    <2> SUFFICES ASSUME NEW i \in DOMAIN todo["chase"], i = 1,
                        todo["chase"][i].do \in {"DONE", "ERROR"}
                 PROVE  Understands(asker, todo["chase"][i].do, todo["chase"][i].arg)
      BY DEF ToolsUnderstand
    <2>1. todo["chase"] \in Seq(Statements(asker))
      BY WebsiteAssumption DEF ScriptsOK, Doer
    <2>2. todo["chase"][i] \in Statements(asker)
      BY <2>1
    <2>3. Sound(todo["chase"][i], asker)
      BY <2>2 DEF Statements, Nested
    <2> QED BY <2>3 DEF Sound
  <1>4. asker \in {"", "piw-add", "piw-remove", "piw-rebuild", "piw-import"}
    BY WorldFacts DEF TasksOK, Tools
  <1> QED BY <1>1, <1>2, <1>3, <1>4 DEF RowsOK, ScriptsOK, TasksOK, TypeOK

-----------------------------------------------------------------------------
(* The transactions.                                                        *)

\* The fields of a row set, to say them once.
LEMMA RowFacts ==
  ASSUME RowsOK
  PROVE  /\ db.pkgs \subseteq Pkgs /\ db.vers \subseteq Builds /\ db.files \subseteq Builds
         /\ db.fails \subseteq Builds /\ db.yanked \subseteq Builds
         /\ db.skip \in [Keys -> SkipReasons]
         /\ IsFiniteSet(db.pkgs) /\ IsFiniteSet(db.vers)
  BY DEF RowsOK, CatalogueTypeOK

GoodRows(d) ==
  /\ d \in [pkgs : SUBSET Pkgs, vers : SUBSET Builds, files : SUBSET Builds,
            fails : SUBSET Builds, yanked : SUBSET Builds, skip : [Keys -> SkipReasons]]
  /\ IsFiniteSet(d.pkgs) /\ IsFiniteSet(d.vers)

LEMMA ExecutedType ==
  ASSUME RowsOK, NEW t, NEW B, NEW s \in Nested(B, t), ~Refused(s)
  PROVE  GoodRows(Executed(s))
  <1>1. s.key \in Keys /\ Sound(s, t)
    BY DEF Nested
  <1>2. GoodRows(db)
    BY DEF RowsOK, GoodRows, CatalogueTypeOK
  <1>3. CASE s.do = "addpkg"
    <2>1. s.arg \in SkipReasons /\ s.key[1] \in Pkgs
      BY <1>1, <1>3, KeyFacts DEF Sound
    <2>2. IsFiniteSet(db.pkgs \cup {s.key[1]})
      BY <1>2, FS_AddElement DEF GoodRows
    <2>3. GoodRows([db EXCEPT !.pkgs = @ \cup {s.key[1]}, !.skip[s.key] = s.arg])
      BY <1>1, <1>2, <2>1, <2>2 DEF GoodRows
    <2> QED BY <1>2, <1>3, <2>3 DEF Executed, PackageAdded
  <1>4. CASE s.do = "addver"
    <2>1. s.arg \in SkipReasons /\ s.key \in Builds
      BY <1>1, <1>4 DEF Sound
    <2>2. IsFiniteSet(db.vers \cup {s.key})
      BY <1>2, FS_AddElement DEF GoodRows
    <2>3. GoodRows([db EXCEPT !.vers = @ \cup {s.key}, !.skip[s.key] = s.arg])
      BY <1>1, <1>2, <2>1, <2>2 DEF GoodRows
    <2> QED BY <1>2, <1>4, <2>3 DEF Executed, VersionAdded
  <1>5. CASE s.do = "skip"
    <2>1. s.arg \in SkipReasons
      BY <1>1, <1>5 DEF Sound
    <2>2. GoodRows([db EXCEPT !.skip[s.key] = s.arg])
      BY <1>1, <1>2, <2>1 DEF GoodRows
    <2> QED BY <1>2, <1>5, <2>2 DEF Executed, Skipped
  <1>6. CASE s.do = "yank"
    <2>1. GoodRows([db EXCEPT !.yanked = @ \cup ({s.key} \cap db.vers)])
      BY <1>2 DEF GoodRows
    <2> QED BY <1>6, <2>1 DEF Executed, Yanked
  <1>7. CASE s.do = "unyank"
    <2>1. GoodRows([db EXCEPT !.yanked = @ \ {s.key}])
      BY <1>2 DEF GoodRows
    <2> QED BY <1>7, <2>1 DEF Executed, Unyanked
  <1>8. CASE s.do = "delete"
    <2> DEFINE k == s.key
               skips == [o \in Keys |-> IF o = k \/ o \in Covered(k) THEN "" ELSE db.skip[o]]
               rest == IF k[2] = NoVer THEN db.pkgs \ {k[1]} ELSE db.pkgs
    <2>1. skips \in [Keys -> SkipReasons]
      BY <1>2 DEF GoodRows, SkipReasons
    <2>2. IsFiniteSet(db.vers \ Covered(k)) /\ IsFiniteSet(rest)
      BY <1>2, FS_Subset DEF GoodRows
    <2>3. rest \subseteq Pkgs
      BY <1>2 DEF GoodRows
    <2> HIDE DEF skips, rest
    <2>4. GoodRows([db EXCEPT !.pkgs = rest,
                     !.vers = @ \ Covered(k), !.files = @ \ Covered(k),
                     !.fails = @ \ Covered(k), !.yanked = @ \ Covered(k), !.skip = skips])
      BY <1>2, <2>1, <2>2, <2>3 DEF GoodRows
    <2>5. Without(k) = [db EXCEPT !.pkgs = rest,
                     !.vers = @ \ Covered(k), !.files = @ \ Covered(k),
                     !.fails = @ \ Covered(k), !.yanked = @ \ Covered(k), !.skip = skips]
      BY <1>2 DEF Without, rest, skips, GoodRows
    <2> QED BY <1>8, <2>4, <2>5 DEF Executed
  <1>9. CASE s.do = "delbuilds"
    <2>1. GoodRows([db EXCEPT !.files = @ \ {s.key}, !.fails = @ \ {s.key}])
      BY <1>2 DEF GoodRows
    <2> QED BY <1>9, <2>1 DEF Executed, BuildsDeleted
  <1>10. CASE s.do = "logged"
    <2>1. s.key \in Builds
      BY <1>2, <1>10 DEF Refused, GoodRows
    <2>2. GoodRows([db EXCEPT !.files = @ \cup {s.key}])
      BY <1>2, <2>1 DEF GoodRows
    <2> QED BY <1>10, <2>2 DEF Executed, SuccessLogged
  <1>11. CASE s.do = "failed"
    <2>1. s.key \in Builds
      BY <1>2, <1>11 DEF Refused, GoodRows
    <2>2. GoodRows([db EXCEPT !.fails = @ \cup {s.key}])
      BY <1>2, <2>1 DEF GoodRows
    <2> QED BY <1>11, <2>2 DEF Executed, FailureLogged
  <1>12. CASE s.do \notin {"addpkg", "addver", "skip", "yank", "unyank", "delete",
                          "delbuilds", "logged", "failed"}
    BY <1>2, <1>12 DEF Executed
  <1> QED BY <1>3, <1>4, <1>5, <1>6, <1>7, <1>8, <1>9, <1>10, <1>11, <1>12

LEMMA FollowingType ==
  ASSUME RowsOK, NEW t, NEW s \in Statements(t)
  PROVE  Following(s) \in Seq(Statements(t))
  <1>1. s.yes \in Seq(Statements(t)) /\ s.no \in Seq(Statements(t)) /\ s.key \in Keys /\ Sound(s, t)
    BY NestingSeq DEF Statements, Nested
  <1>2. CASE s.do # "releases"
    BY <1>1, <1>2 DEF Following
  <1>3. CASE s.do = "releases"
    <2> DEFINE R == {v \in db.vers : v[1] = s.key[1]}
               n == Cardinality(R)
               vs == SetToSeq(R)
               f == [i \in DOMAIN vs |-> DeleteBuild(vs[i])]
    <2>1. R \subseteq Builds /\ IsFiniteSet(R)
      BY RowFacts, FS_Subset
    <2>2. n \in Nat /\ vs \in [1..n -> R]
      BY <2>1, SetToSeqType
    <2>3. t = "piw-remove"
      BY <1>1, <1>3 DEF Sound
    <2> HIDE DEF R, n, vs
    <2>4. ASSUME NEW i \in 1..n PROVE DeleteBuild(vs[i]) \in Leaves(t)
      <3>1. vs[i] \in Keys
        BY <2>1, <2>2, KeyFacts
      <3>2. Sound(Do("delbuilds", vs[i]), t)
        BY <2>3 DEF Sound, Do, Test
      <3>3. "delbuilds" \in Calls
        BY DEF Calls
      <3> QED BY <3>1, <3>2, <3>3, DoIsLeaf DEF DeleteBuild
    <2>5. DOMAIN vs = 1..n
      BY <2>2
    <2>6. f \in [1..n -> Leaves(t)]
      BY <2>4, <2>5
    <2>7. f \in Seq(Leaves(t))
      BY <2>2, <2>6, FunctionIsSeq
    <2>8. Following(s) = f
      BY <1>3 DEF Following, R, vs
    <2> QED BY <2>7, <2>8, NestingSeq
  <1> QED BY <1>2, <1>3

-----------------------------------------------------------------------------
(* The buffer of TheSecretary.                                              *)

LEMMA RememberType ==
  ASSUME BufferOK, NEW p \in Pkgs, NEW cmd \in Rewrites, Remember(p, cmd)
  PROVE  /\ BufferOK'
         /\ DOMAIN commands' = DOMAIN commands \cup {p}
  <1>1. CASE p \in DOMAIN commands
    BY <1>1 DEF BufferOK, Remember
  <1>2. CASE p \notin DOMAIN commands
    <2>1. buffer' = Append(buffer, p) /\ commands' = With(p, cmd)
      BY <1>2 DEF Remember
    <2>2. /\ DOMAIN commands' = DOMAIN commands \cup {p}
          /\ \A q \in DOMAIN commands : commands'[q] = commands[q]
          /\ commands'[p] = cmd
      BY <1>2, <2>1 DEF With
    <2>3. commands' = [q \in DOMAIN commands \cup {p} |-> commands'[q]]
      BY <2>1 DEF With
    <2>4. commands' \in [DOMAIN commands' -> Rewrites]
      BY <2>2, <2>3 DEF BufferOK
    <2>5. /\ buffer' \in Seq(Pkgs) /\ Len(buffer') = Len(buffer) + 1
          /\ \A i \in 1..Len(buffer) : buffer'[i] = buffer[i]
          /\ buffer'[Len(buffer) + 1] = p
      BY <2>1 DEF BufferOK
    <2>6. \A i \in 1..Len(buffer) : buffer[i] # p
      BY <1>2 DEF BufferOK, ToSet
    <2>7. IsInjective(buffer')
      <3>1. DOMAIN buffer = 1..Len(buffer) /\ Len(buffer) \in Nat
        BY DEF BufferOK
      <3>2. DOMAIN buffer' = 1..(Len(buffer) + 1)
        BY <2>5
      <3> QED BY <2>5, <2>6, <3>1, <3>2 DEF BufferOK, IsInjective
    <2>8. ToSet(buffer') = DOMAIN commands'
      <3>1. ToSet(buffer') = ToSet(buffer) \cup {p}
        <4>1. DOMAIN buffer = 1..Len(buffer) /\ Len(buffer) \in Nat
          BY DEF BufferOK
        <4>2. DOMAIN buffer' = 1..(Len(buffer) + 1)
          BY <2>5
        <4> QED BY <2>5, <4>1, <4>2 DEF ToSet
      <3> QED BY <2>2, <3>1 DEF BufferOK
    <2> QED BY <2>2, <2>4, <2>5, <2>7, <2>8 DEF BufferOK
  <1> QED BY <1>1, <1>2

\* A sequence without one of its elements, of which it has no other.
LEMMA RemoveFirstType ==
  ASSUME NEW s \in Seq(Pkgs), IsInjective(s), NEW p \in ToSet(s)
  PROVE  /\ RemoveFirst(s, p) \in Seq(Pkgs)
         /\ IsInjective(RemoveFirst(s, p))
         /\ ToSet(RemoveFirst(s, p)) = ToSet(s) \ {p}
  <1>1. PICK i \in 1..Len(s) : s[i] = p
    BY DEF ToSet
  <1>2. SelectInSeq(s, LAMBDA v : v = p) = i
    <2>1. {j \in 1..Len(s) : s[j] = p} = {i}
      BY <1>1 DEF IsInjective
    <2> QED BY <1>1, <2>1 DEF SelectInSeq, Min
  <1> DEFINE a == SubSeq(s, 1, i - 1)
             b == SubSeq(s, i + 1, Len(s))
  <1>3. RemoveFirst(s, p) = a \o b
    BY <1>1, <1>2 DEF RemoveFirst, RemoveAt
  <1>4. /\ a \in Seq(Pkgs) /\ Len(a) = i - 1 /\ \A j \in 1..(i - 1) : a[j] = s[j]
        /\ b \in Seq(Pkgs) /\ Len(b) = Len(s) - i
        /\ \A j \in 1..(Len(s) - i) : b[j] = s[j + i]
    BY <1>1
  <1> HIDE DEF a, b
  <1>5. /\ a \o b \in Seq(Pkgs) /\ Len(a \o b) = Len(s) - 1
        /\ \A j \in 1..(Len(s) - 1) : (a \o b)[j] = IF j < i THEN s[j] ELSE s[j + 1]
    <2>1. /\ a \o b \in Seq(Pkgs) /\ Len(a \o b) = Len(a) + Len(b)
          /\ \A j \in 1..Len(a) + Len(b) :
               (a \o b)[j] = IF j <= Len(a) THEN a[j] ELSE b[j - Len(a)]
      BY <1>4, ConcatProperties
    <2>2. Len(a) + Len(b) = Len(s) - 1 /\ Len(s) \in Nat
      BY <1>4
    <2>3. ASSUME NEW j \in 1..(Len(s) - 1)
          PROVE  (a \o b)[j] = IF j < i THEN s[j] ELSE s[j + 1]
      <3>1. CASE j < i
        BY <1>4, <2>1, <2>2, <3>1
      <3>2. CASE ~(j < i)
        <4>1. (a \o b)[j] = b[j - (i - 1)]
          BY <1>4, <2>1, <2>2, <3>2
        <4>2. j - (i - 1) \in 1..(Len(s) - i) /\ j - (i - 1) + i = j + 1
          BY <2>2, <3>2
        <4> QED BY <1>4, <3>2, <4>1, <4>2
      <3> QED BY <3>1, <3>2
    <2> QED BY <2>1, <2>2, <2>3
  <1>6. DOMAIN s = 1..Len(s) /\ DOMAIN (a \o b) = 1..(Len(s) - 1) /\ Len(s) \in Nat
    BY <1>5
  <1> DEFINE n == Len(s)
             r == a \o b
  <1>7. /\ n \in Nat /\ DOMAIN s = 1..n /\ DOMAIN r = 1..(n - 1)
        /\ i \in 1..n /\ r \in Seq(Pkgs)
        /\ \A j \in 1..(n - 1) : r[j] = IF j < i THEN s[j] ELSE s[j + 1]
    BY <1>5, <1>6
  <1>8. \A j, l \in 1..n : s[j] = s[l] => j = l
    BY <1>7 DEF IsInjective
  <1> HIDE DEF n, r
  <1>9. ASSUME NEW j \in 1..(n - 1), NEW l \in 1..(n - 1), r[j] = r[l] PROVE j = l
    <2>1. CASE j < i /\ l < i
      BY <1>7, <1>8, <1>9, <2>1
    <2>2. CASE ~(j < i) /\ ~(l < i)
      BY <1>7, <1>8, <1>9, <2>2
    <2>3. CASE j < i /\ ~(l < i)
      BY <1>7, <1>8, <1>9, <2>3
    <2>4. CASE ~(j < i) /\ l < i
      BY <1>7, <1>8, <1>9, <2>4
    <2> QED BY <2>1, <2>2, <2>3, <2>4
  <1>10. ASSUME NEW j \in 1..(n - 1) PROVE \E l \in 1..n : r[j] = s[l] /\ l # i
    <2>1. CASE j < i
      BY <1>7, <2>1
    <2>2. CASE ~(j < i)
      BY <1>7, <2>2
    <2> QED BY <2>1, <2>2
  <1>11. ASSUME NEW j \in 1..n, j # i PROVE \E l \in 1..(n - 1) : r[l] = s[j]
    <2>1. CASE j < i
      <3>1. j \in 1..(n - 1)
        BY <1>7, <2>1
      <3> QED BY <1>7, <2>1, <3>1
    <2>2. CASE ~(j < i)
      <3>1. j - 1 \in 1..(n - 1) /\ ~(j - 1 < i) /\ j - 1 + 1 = j
        BY <1>7, <1>11, <2>2
      <3> QED BY <1>7, <3>1
    <2> QED BY <2>1, <2>2
  <1>12. IsInjective(r)
    BY <1>7, <1>9 DEF IsInjective
  <1>13. ToSet(r) = ToSet(s) \ {p}
    <2>1. ToSet(r) = {r[j] : j \in 1..(n - 1)}
      BY <1>7 DEF ToSet
    <2>2. ToSet(s) = {s[j] : j \in 1..n}
      BY <1>7 DEF ToSet
    <2>3. ASSUME NEW e \in ToSet(r) PROVE e \in ToSet(s) \ {p}
      <3>1. PICK j \in 1..(n - 1) : e = r[j]
        BY <2>1, <2>3
      <3>2. PICK l \in 1..n : r[j] = s[l] /\ l # i
        BY <1>10
      <3> QED BY <1>1, <1>7, <1>8, <2>2, <3>1, <3>2
    <2>4. ASSUME NEW e \in ToSet(s), e # p PROVE e \in ToSet(r)
      <3>1. PICK j \in 1..n : e = s[j]
        BY <2>2, <2>4
      <3>2. PICK l \in 1..(n - 1) : r[l] = s[j]
        BY <1>1, <1>11, <2>4, <3>1
      <3> QED BY <2>1, <3>1, <3>2
    <2> QED BY <2>3, <2>4
  <1> QED BY <1>3, <1>7, <1>12, <1>13 DEF r

LEMMA ExpungeType ==
  ASSUME BufferOK, NEW p \in Pkgs, Expunge(p)
  PROVE  /\ BufferOK'
         /\ DOMAIN commands' = DOMAIN commands \ {p}
  <1>1. CASE p \in DOMAIN commands
    <2>1. /\ commands' = [q \in DOMAIN commands \ {p} |-> commands[q]]
          /\ buffer' = RemoveFirst(buffer, p)
      BY <1>1 DEF Expunge
    <2>2. DOMAIN commands' = DOMAIN commands \ {p} /\ commands' \in [DOMAIN commands' -> Rewrites]
      BY <2>1 DEF BufferOK
    <2>3. p \in ToSet(buffer)
      BY <1>1 DEF BufferOK
    <2>4. /\ buffer' \in Seq(Pkgs) /\ IsInjective(buffer')
          /\ ToSet(buffer') = ToSet(buffer) \ {p}
      BY <2>1, <2>3, RemoveFirstType DEF BufferOK
    <2> QED BY <2>2, <2>4 DEF BufferOK
  <1>2. CASE p \notin DOMAIN commands
    BY <1>2 DEF Expunge, BufferOK
  <1> QED BY <1>1, <1>2

LEMMA HandleOutputType ==
  ASSUME BufferOK, HandleOutput
  PROVE  /\ BufferOK'
         /\ \E p \in Pkgs : /\ p \in DOMAIN commands /\ commands[p] \in Rewrites
                            /\ serving' = <<Itself, commands[p], Package(p)>>
                            /\ DOMAIN commands' = DOMAIN commands \ {p}
  <1> DEFINE p == Head(buffer)
  <1>1. /\ buffer # <<>> /\ buffer' = Tail(buffer)
        /\ serving' = <<Itself, commands[p], Package(p)>>
        /\ commands' = [q \in DOMAIN commands \ {p} |-> commands[q]]
    BY DEF HandleOutput
  <1>2. /\ p \in Pkgs /\ p = buffer[1] /\ Len(buffer) \in Nat /\ Len(buffer) > 0
        /\ DOMAIN buffer = 1..Len(buffer)
    BY <1>1 DEF BufferOK
  <1>3. /\ buffer' \in Seq(Pkgs) /\ Len(buffer') = Len(buffer) - 1
        /\ \A i \in 1..(Len(buffer) - 1) : buffer'[i] = buffer[i + 1]
        /\ DOMAIN buffer' = 1..(Len(buffer) - 1)
    BY <1>1, <1>2 DEF BufferOK
  <1> HIDE DEF p
  <1>4. p \in DOMAIN commands /\ commands[p] \in Rewrites
    BY <1>2 DEF BufferOK, ToSet
  <1>5. DOMAIN commands' = DOMAIN commands \ {p} /\ commands' \in [DOMAIN commands' -> Rewrites]
    BY <1>1 DEF BufferOK
  <1>6. IsInjective(buffer')
    BY <1>2, <1>3 DEF BufferOK, IsInjective
  <1>7. ToSet(buffer') = ToSet(buffer) \ {p}
    <2>1. ASSUME NEW i \in 1..(Len(buffer) - 1) PROVE buffer'[i] \in ToSet(buffer) \ {p}
      BY <1>2, <1>3, <2>1 DEF BufferOK, IsInjective, ToSet
    <2>2. ASSUME NEW j \in 1..Len(buffer), buffer[j] # p
          PROVE  \E l \in 1..(Len(buffer) - 1) : buffer'[l] = buffer[j]
      <3>1. j - 1 \in 1..(Len(buffer) - 1) /\ j - 1 + 1 = j
        BY <1>2, <2>2
      <3> QED BY <1>3, <3>1
    <2>3. ToSet(buffer') = {buffer'[i] : i \in 1..(Len(buffer) - 1)}
      BY <1>3 DEF ToSet
    <2>4. ToSet(buffer) = {buffer[i] : i \in 1..Len(buffer)}
      BY <1>2 DEF ToSet
    <2> QED BY <2>1, <2>2, <2>3, <2>4
  <1> QED BY <1>1, <1>2, <1>3, <1>4, <1>5, <1>6, <1>7 DEF BufferOK

LEMMA LoadType ==
  ASSUME NEW table \in Seq(Pkgs \X Rewrites),
         \A i, j \in 1..Len(table) : table[i][1] = table[j][1] => i = j,
         Load(table)
  PROVE  BufferOK' /\ SavedOK'
  <1>1. Len(table) \in Nat /\ \A i \in 1..Len(table) : table[i] \in Pkgs \X Rewrites
    OBVIOUS
  <1>2. /\ buffer' = [i \in 1..Len(table) |-> table[i][1]]
        /\ commands' = [p \in {table[i][1] : i \in 1..Len(table)} |->
                    LET i == CHOOSE j \in 1..Len(table) : table[j][1] = p
                    IN table[i][2]]
        /\ saved' = table
    BY DEF Load
  <1>3. buffer' \in [1..Len(table) -> Pkgs]
    BY <1>1, <1>2
  <1>4. buffer' \in Seq(Pkgs) /\ DOMAIN buffer' = 1..Len(table)
    BY <1>1, <1>2, <1>3, FunctionIsSeq
  <1>5. IsInjective(buffer')
    BY <1>2, <1>4 DEF IsInjective
  <1>6. DOMAIN commands' = {table[i][1] : i \in 1..Len(table)}
    BY <1>2
  <1>7. ToSet(buffer') = DOMAIN commands'
    BY <1>2, <1>4, <1>6 DEF ToSet
  <1>8. ASSUME NEW p \in DOMAIN commands' PROVE commands'[p] \in Rewrites
    <2> DEFINE i == CHOOSE j \in 1..Len(table) : table[j][1] = p
    <2>1. \E j \in 1..Len(table) : table[j][1] = p
      BY <1>6, <1>8
    <2>2. i \in 1..Len(table)
      BY <2>1
    <2>3. commands'[p] = table[i][2]
      BY <1>2, <1>6, <1>8
    <2> QED BY <1>1, <2>2, <2>3
  <1>9. commands' \in [DOMAIN commands' -> Rewrites]
    BY <1>2, <1>8
  <1> QED BY <1>2, <1>4, <1>5, <1>7, <1>9 DEF BufferOK, SavedOK

\* What is in the buffer can be stored and loaded.
LEMMA PendingType ==
  ASSUME BufferOK
  PROVE  /\ Pending \in Seq(Pkgs \X Rewrites)
         /\ Len(Pending) = Len(buffer)
         /\ \A i \in 1..Len(buffer) : Pending[i] = <<buffer[i], commands[buffer[i]]>>
         /\ \A i, j \in 1..Len(Pending) : Pending[i][1] = Pending[j][1] => i = j
  <1>1. Len(buffer) \in Nat /\ DOMAIN buffer = 1..Len(buffer)
    BY DEF BufferOK
  <1>2. \A i \in 1..Len(buffer) : buffer[i] \in Pkgs /\ commands[buffer[i]] \in Rewrites
    BY <1>1 DEF BufferOK, ToSet
  <1>3. Pending \in [1..Len(buffer) -> Pkgs \X Rewrites]
    BY <1>2 DEF Pending
  <1>4. Pending \in Seq(Pkgs \X Rewrites) /\ Len(Pending) = Len(buffer)
    BY <1>1, <1>3, FunctionIsSeq
  <1>5. \A i \in 1..Len(buffer) : Pending[i] = <<buffer[i], commands[buffer[i]]>>
    BY DEF Pending
  <1> QED BY <1>1, <1>4, <1>5 DEF BufferOK, IsInjective

-----------------------------------------------------------------------------
(* The steps.                                                               *)

LEMMA ThenTodo ==
  ASSUME DOMAIN todo = Clients, NEW c \in Clients, NEW x, Then(c, x)
  PROVE  /\ DOMAIN todo' = Clients
         /\ todo'[c] = x
         /\ \A d \in Clients : d # c => todo'[d] = todo[d]
  BY DEF Then

LEMMA ThenType ==
  ASSUME ScriptsOK, NEW c \in Clients, NEW x, Then(c, x),
         x \in Seq(Statements(Doer(c)')),
         \A d \in Clients : d # c => Doer(d)' = Doer(d)
  PROVE  ScriptsOK'
  <1>1. DOMAIN todo = Clients
    BY DEF ScriptsOK
  <1>2. /\ DOMAIN todo' = Clients
        /\ todo'[c] = x
        /\ \A d \in Clients : d # c => todo'[d] = todo[d]
    BY <1>1, ThenTodo
  <1>3. ASSUME NEW d \in Clients PROVE todo'[d] \in Seq(Statements(Doer(d)'))
    BY <1>2 DEF ScriptsOK
  <1> QED BY <1>2, <1>3 DEF ScriptsOK

LEMMA CurrentType ==
  ASSUME ScriptsOK, NEW c \in Clients, todo[c] # <<>>
  PROVE  /\ Current(c) \in Statements(Doer(c)) /\ Current(c) = todo[c][1]
         /\ Current(c).key \in Keys /\ Current(c).key[1] \in Pkgs
         /\ Sound(Current(c), Doer(c))
         /\ Tail(todo[c]) \in Seq(Statements(Doer(c)))
  <1>1. todo[c] \in Seq(Statements(Doer(c)))
    BY DEF ScriptsOK
  <1>2. /\ Current(c) \in Statements(Doer(c)) /\ Current(c) = todo[c][1]
        /\ Tail(todo[c]) \in Seq(Statements(Doer(c)))
    BY <1>1 DEF Current
  <1>3. Current(c).key \in Keys /\ Sound(Current(c), Doer(c))
    BY <1>2 DEF Statements, Nested
  <1> QED BY <1>2, <1>3, KeyFacts

\* A task whose script changes while TheScribe works is not the one served.
LEMMA ServingKept ==
  ASSUME ServingOK, UNCHANGED serving, NEW c \in Clients,
         \A d \in Clients : d # c => todo'[d] = todo[d],
         todo[c] = <<>> \/ Current(c).do \notin Commands
  PROVE  ServingOK'
  <1>1. Idle' = Idle /\ Client' = Client /\ Command' = Command /\ Key' = Key
    BY DEF Idle, Client, Command, Key
  <1>2. ASSUME ~Idle, Client \in Clients
        PROVE  todo'[Client] # <<>> /\ Current(Client)' = Current(Client)
    <2>1. Command \in Commands
      BY <1>2 DEF ServingOK, Command, Idle
    <2>2. Client # c
      BY <1>2, <2>1 DEF ServingOK
    <2>3. todo'[Client] = todo[Client] /\ todo[Client] # <<>>
      BY <1>2, <2>2 DEF ServingOK
    <2> QED BY <1>1, <2>3 DEF Current
  <1> QED BY <1>1, <1>2 DEF ServingOK, Current

LEMMA StageFacts ==
  ASSUME PagesOK
  PROVE  /\ Idle => stage = "start"
         /\ stage # "start" => \/ Command \in Rewrites
                               \/ Command = "DEL" /\ Key[2] # NoVer
  BY DEF PagesOK

LEMMA PagesKept ==
  ASSUME PagesOK, Idle, UNCHANGED <<stage, data, wheels, simple, project, index, cache>>
  PROVE  PagesOK'
  <1>1. stage = "start" /\ stage' = "start"
    BY StageFacts
  <1> QED BY <1>1 DEF PagesOK

LEMMA TransactType ==
  ASSUME TypeInv, NEW c \in Clients, Transact(c), UNCHANGED world
  PROVE  TypeInv'
  <1> USE DEF TypeInv
  <1> DEFINE s == Current(c)
  <1>1. /\ todo[c] # <<>> /\ s.do \notin Commands \cup OwnOps
        /\ UNCHANGED <<webVars, acked, gazerVars, driverVars, importing, asker, history, spent>>
    BY DEF Transact, Transacts
  <1>2. /\ s \in Statements(Doer(c)) /\ s.key \in Keys
        /\ Sound(s, Doer(c)) /\ Tail(todo[c]) \in Seq(Statements(Doer(c)))
    BY <1>1, CurrentType
  <1>3. \A d \in Clients : Doer(d)' = Doer(d)
    BY <1>1 DEF Doer
  <1>4. /\ \/ UNCHANGED db
           \/ ~Refused(s) /\ db' = Executed(s)
        /\ \E x \in Seq(Statements(Doer(c))) : Then(c, x)
        /\ dead' \in {dead, dead \cup {c}} /\ touched' \in BOOLEAN
    <2>1. CASE Refused(s) /\ c = "chase" /\ Caught(s)
      <3>1. Then(c, Error("failed to log build", s.key)) /\ UNCHANGED <<db, touched, dead>>
        BY <2>1 DEF Transact
      <3>2. Doer(c) = "piw-import"
        <4>1. asker # "driver"
          BY WorldFacts DEF TasksOK, Tools
        <4> QED BY <1>2, <2>1, <4>1 DEF Sound, Caught, Doer
      <3>3. Error("failed to log build", s.key) \in Seq(Statements(Doer(c)))
        BY <1>2, <3>2, ImportErrors, NestingSeq
      <3> QED BY <3>1, <3>3 DEF TasksOK
    <2>2. CASE Refused(s) /\ ~(c = "chase" /\ Caught(s))
      <3>1. Then(c, <<>>) /\ dead' = dead \cup {c} /\ UNCHANGED <<db, touched>>
        BY <2>2 DEF Transact
      <3> QED BY <3>1, EmptyInSeq DEF TasksOK
    <2>3. CASE ~Refused(s)
      <3>1. /\ db' = Executed(s) /\ UNCHANGED dead
            /\ Then(c, Following(s) \o Tail(todo[c]))
            /\ touched' = IF c = "chase" THEN touched \/ db' # db ELSE touched
        BY <2>3 DEF Transact
      <3>2. Following(s) \o Tail(todo[c]) \in Seq(Statements(Doer(c)))
        BY <1>2, FollowingType, ConcatInSeq
      <3>3. touched' \in BOOLEAN
        BY <3>1 DEF TasksOK
      <3> QED BY <2>3, <3>1, <3>2, <3>3
    <2> QED BY <2>1, <2>2, <2>3
  <1>5. PICK x \in Seq(Statements(Doer(c))) : Then(c, x)
    BY <1>4
  <1>6. RowsOK'
    <2>1. CASE UNCHANGED db
      BY <2>1 DEF RowsOK, CatalogueTypeOK
    <2>2. CASE ~Refused(s) /\ db' = Executed(s)
      <3>1. GoodRows(db')
        BY <1>2, <2>2, ExecutedType DEF Statements
      <3> QED BY <3>1 DEF RowsOK, CatalogueTypeOK, GoodRows
    <2> QED BY <1>4, <2>1, <2>2
  <1>7. BufferOK' /\ SavedOK'
    BY <1>1 DEF BufferOK, SavedOK, webVars, secretaryVars
  <1>8. PagesOK'
    BY <1>1 DEF PagesOK, Idle, Command, Key, webVars, secretaryVars, scribeVars
  <1>9. ScriptsOK'
    BY <1>3, <1>5, ThenType
  <1>10. ServingOK'
    <2>1. \A d \in Clients : d # c => todo'[d] = todo[d]
      BY <1>5, ThenTodo DEF ScriptsOK
    <2> QED BY <1>1, <2>1, ServingKept DEF webVars, secretaryVars
  <1>11. TasksOK'
    BY <1>1, <1>4 DEF TasksOK, gazerVars, driverVars, history
  <1> QED BY <1>6, <1>7, <1>8, <1>9, <1>10, <1>11

LEMMA AskType ==
  ASSUME TypeInv, NEW c \in Clients, Ask(c), UNCHANGED world
  PROVE  TypeInv'
  <1> USE DEF TypeInv
  <1> DEFINE s == Current(c)
  <1>1. /\ todo[c] # <<>> /\ s.do \in Commands /\ HandleInput(c, s.do, s.key)
        /\ IF s.do \in Rewrites THEN Then(c, Tail(todo[c])) ELSE UNCHANGED todo
        /\ late' = IF c # "gazer" /\ Gone(s.key[1]) THEN late \cup {s.key[1]} ELSE late
        /\ UNCHANGED <<db, scribeVars, acked, dead, gazerVars, driverVars, chaseVars, halfdone, spent>>
    BY DEF Ask, Asks
  <1>2. /\ s \in Statements(Doer(c)) /\ s.key \in Keys /\ s.key[1] \in Pkgs
        /\ Tail(todo[c]) \in Seq(Statements(Doer(c)))
    BY <1>1, CurrentType
  <1>3. \A d \in Clients : Doer(d)' = Doer(d)
    BY <1>1 DEF Doer, chaseVars
  <1>4. Idle /\ UNCHANGED saved
    BY <1>1 DEF HandleInput
  <1>5. RowsOK' /\ SavedOK'
    BY <1>1, <1>4 DEF RowsOK, CatalogueTypeOK, SavedOK
  <1>6. PagesOK'
    BY <1>1, <1>4, PagesKept DEF scribeVars
  <1>7. TasksOK'
    BY <1>1, <1>2 DEF TasksOK, gazerVars, driverVars, chaseVars
  <1>8. CASE s.do \in Rewrites
    <2>1. Remember(s.key[1], s.do) /\ UNCHANGED serving /\ Then(c, Tail(todo[c]))
      BY <1>1, <1>8 DEF HandleInput
    <2>2. BufferOK'
      BY <1>2, <1>8, <2>1, RememberType
    <2>3. ScriptsOK'
      BY <1>2, <1>3, <2>1, ThenType
    <2>4. ServingOK'
      BY <1>4, <2>1 DEF ServingOK, Idle
    <2> QED BY <1>5, <1>6, <1>7, <2>2, <2>3, <2>4
  <1>9. CASE s.do \notin Rewrites
    <2>1. /\ serving' = <<c, s.do, s.key>> /\ UNCHANGED todo
          /\ IF s.do = "DEL" THEN Expunge(s.key[1]) ELSE UNCHANGED <<buffer, commands>>
      BY <1>1, <1>9 DEF HandleInput
    <2>2. BufferOK'
      <3>1. CASE s.do = "DEL"
        BY <1>2, <2>1, <3>1, ExpungeType
      <3>2. CASE s.do # "DEL"
        BY <2>1, <3>2 DEF BufferOK
      <3> QED BY <3>1, <3>2
    <2>3. ScriptsOK'
      BY <1>3, <2>1 DEF ScriptsOK
    <2>4. ServingOK'
      <3>1. Client' = c /\ Command' = s.do /\ Key' = s.key
        BY <2>1 DEF Client, Command, Key
      <3>2. Current(c)' = s
        BY <2>1 DEF Current
      <3> QED BY <1>1, <1>2, <2>1, <3>1, <3>2 DEF ServingOK
    <2> QED BY <1>5, <1>6, <1>7, <2>2, <2>3, <2>4
  <1> QED BY <1>8, <1>9

LEMMA DueType ==
  ASSUME TypeInv, Due, UNCHANGED world
  PROVE  TypeInv'
  <1> USE DEF TypeInv
  <1>1. /\ HandleOutput /\ Idle /\ UNCHANGED saved
        /\ UNCHANGED <<db, scribeVars, todo, acked, dead, gazerVars, driverVars, chaseVars, history, spent>>
    BY DEF Due, HandleOutput
  <1>2. BufferOK'
    BY <1>1, HandleOutputType
  <1>3. PICK p \in Pkgs : /\ p \in DOMAIN commands /\ commands[p] \in Rewrites
                          /\ serving' = <<Itself, commands[p], Package(p)>>
    BY <1>1, HandleOutputType
  <1>4. ServingOK'
    <2>1. Client' = Itself
      BY <1>3 DEF Client
    <2> QED BY <1>3, <2>1, KeyFacts, SecretaryAssumption DEF ServingOK, Commands
  <1>5. RowsOK' /\ SavedOK'
    BY <1>1 DEF RowsOK, CatalogueTypeOK, SavedOK
  <1>6. PagesOK'
    BY <1>1, PagesKept DEF scribeVars
  <1>7. TasksOK'
    BY <1>1 DEF TasksOK, gazerVars, driverVars, chaseVars, history
  <1>8. ScriptsOK'
    BY <1>1 DEF ScriptsOK, Doer, chaseVars
  <1> QED BY <1>2, <1>4, <1>5, <1>6, <1>7, <1>8

LEMMA ProjectDataType ==
  ASSUME RowsOK, NEW p \in Pkgs
  PROVE  ProjectData(p) \subseteq Releases
  <1> SUFFICES ASSUME NEW b \in db.vers, b[1] = p
               PROVE  [ver |-> b[2], status |-> Status(b), yanked |-> b \in db.yanked,
                       skipped |-> db.skip[b] # "" \/ db.skip[Package(p)] # ""] \in Releases
    BY DEF ProjectData
  <1>1. b[2] \in Vers
    BY RowFacts DEF Builds
  <1>2. Status(b) \in {"success", "fail", "pending"}
    BY DEF Status
  <1> QED BY <1>1, <1>2 DEF Releases

LEMMA OfferedType ==
  ASSUME NEW R \in SUBSET Releases
  PROVE  Offered(R) \subseteq Vers \X BOOLEAN
  BY DEF Offered, Releases

LEMMA ServedFacts ==
  ASSUME ServingOK, ~Idle
  PROVE  /\ Client \in Clients \cup {Itself} /\ Command \in Commands
         /\ Key \in Keys /\ Target \in Pkgs
         /\ serving = <<Client, Command, Key>>
         /\ Key[2] # NoVer => Key \in Builds
  BY KeyFacts DEF ServingOK, Idle, Client, Command, Key, Target

LEMMA HandleIndexType ==
  ASSUME RowsOK, ServingOK, PagesOK, HandleIndex, UNCHANGED db
  PROVE  /\ PagesOK'
         /\ UNCHANGED <<buffer, commands, saved>>
         /\ serving' = serving \/ serving' = <<>>
  <1>1. ~Idle
    BY DEF HandleIndex
  <1>2. Command \in Commands /\ Key \in Keys /\ Target \in Pkgs
    BY <1>1, ServedFacts
  <1>3. CASE DeleteVersion
    BY <1>1, <1>3 DEF DeleteVersion, secretaryVars, PagesOK, Idle, Command, Key
  <1>4. CASE GetData
    <2>1. /\ data' = {r \in ProjectData(Target) : r.ver # Key[2]} /\ stage' = "write"
          /\ UNCHANGED <<secretaryVars, wheels, simple, project, index, cache>>
      BY <1>4 DEF GetData
    <2>2. data' \subseteq Releases
      BY <1>2, <2>1, ProjectDataType
    <2>3. \/ Command \in Rewrites
          \/ Command = "DEL" /\ Key[2] # NoVer
      <3>1. Command \in Rewrites \/ stage = "read"
        BY <1>4 DEF GetData
      <3> QED BY <3>1, StageFacts
    <2>4. UNCHANGED secretaryVars /\ UNCHANGED serving
      BY <2>1 DEF secretaryVars
    <2>5. Idle' = Idle /\ Command' = Command /\ Key' = Key
      BY <2>4 DEF Idle, Command, Key
    <2>6. PagesOK'
      BY <1>1, <2>1, <2>2, <2>3, <2>5 DEF PagesOK
    <2> QED BY <2>4, <2>6 DEF secretaryVars
  <1>5. CASE WritePages
    <2>1. /\ stage = "write" /\ WriteProjectPage(Target, data)
          /\ stage' = "start" /\ data' = NoData /\ HandleDone /\ UNCHANGED wheels
      BY <1>5 DEF WritePages
    <2>2. data \subseteq Releases
      BY <2>1 DEF PagesOK
    <2>3. project' \in [Pkgs -> {NoPage} \cup SUBSET Releases]
      BY <1>2, <2>1, <2>2 DEF WriteProjectPage, PagesOK
    <2>4. /\ simple' \in [Pkgs -> {NoPage} \cup SUBSET (Vers \X BOOLEAN)]
          /\ index' \subseteq Pkgs /\ cache' \subseteq Pkgs
      <3>1. CASE Command = "PROJECT"
        BY <1>5, <3>1 DEF WritePages, PagesOK
      <3>2. CASE Command # "PROJECT"
        <4>1. /\ simple' = [simple EXCEPT ![Target] = Offered(data)]
              /\ cache' = cache \cup {Target}
              /\ index' \in {index, cache'}
          BY <1>5, <3>2 DEF WritePages, WritePackageIndex, WriteSimpleIndex
        <4>2. Offered(data) \subseteq Vers \X BOOLEAN
          BY <2>2, OfferedType
        <4> QED BY <1>2, <4>1, <4>2 DEF PagesOK
      <3> QED BY <3>1, <3>2
    <2> QED BY <2>1, <2>3, <2>4 DEF PagesOK, HandleDone, Idle
  <1>6. CASE DeletePackage
    <2>1. /\ cache' = cache \ {Target} /\ index' = cache'
          /\ wheels' = wheels \ (Covered(Key) \cap db.files)
          /\ simple' = [simple EXCEPT ![Target] = NoPage]
          /\ project' = [project EXCEPT ![Target] = NoPage]
          /\ serving' = <<>> /\ UNCHANGED <<buffer, commands, saved>>
          /\ UNCHANGED <<stage, data>>
      BY <1>6 DEF DeletePackage, WriteSimpleIndex, HandleDone
    <2>2. stage = "start"
      BY <1>6 DEF DeletePackage, PagesOK, Rewrites
    <2>3. /\ simple' \in [Pkgs -> {NoPage} \cup SUBSET (Vers \X BOOLEAN)]
          /\ project' \in [Pkgs -> {NoPage} \cup SUBSET Releases]
      BY <1>2, <2>1 DEF PagesOK
    <2> QED BY <2>1, <2>2, <2>3 DEF PagesOK
  <1>7. CASE WriteLog
    <2>1. stage = "start"
      BY <1>7 DEF WriteLog, PagesOK, Rewrites
    <2> QED BY <1>7, <2>1 DEF WriteLog, HandleDone, scribeVars, PagesOK, Idle
  <1> QED BY <1>3, <1>4, <1>5, <1>6, <1>7 DEF HandleIndex

LEMMA WriteType ==
  ASSUME TypeInv, Write, UNCHANGED world
  PROVE  TypeInv'
  <1> USE DEF TypeInv
  <1>1. /\ HandleIndex /\ ~Idle
        /\ IF ~Idle' \/ serving[1] = Itself THEN UNCHANGED todo
           ELSE Then(serving[1], Tail(todo[serving[1]]))
        /\ UNCHANGED <<db, acked, dead, gazerVars, driverVars, chaseVars, history, spent>>
    BY DEF Write, HandleIndex
  <1>2. /\ PagesOK' /\ UNCHANGED <<buffer, commands, saved>>
        /\ serving' = serving \/ serving' = <<>>
    BY <1>1, HandleIndexType
  <1>3. Client \in Clients \cup {Itself}
    BY <1>1, ServedFacts
  <1>4. \A d \in Clients : Doer(d)' = Doer(d)
    BY <1>1 DEF Doer, chaseVars
  <1>5. RowsOK' /\ SavedOK' /\ BufferOK'
    BY <1>1, <1>2 DEF RowsOK, CatalogueTypeOK, SavedOK, BufferOK
  <1>6. TasksOK'
    BY <1>1 DEF TasksOK, gazerVars, driverVars, chaseVars, history
  <1>7. CASE UNCHANGED todo
    <2>1. ScriptsOK'
      BY <1>4, <1>7 DEF ScriptsOK
    <2>2. ServingOK'
      BY <1>2, <1>7 DEF ServingOK, Idle, Client, Command, Key, Current
    <2> QED BY <1>2, <1>5, <1>6, <2>1, <2>2
  <1>8. CASE Idle' /\ Client \in Clients /\ Then(Client, Tail(todo[Client]))
    <2>1. todo[Client] # <<>>
      BY <1>1, <1>8 DEF ServingOK
    <2>2. Tail(todo[Client]) \in Seq(Statements(Doer(Client)))
      BY <1>8, <2>1, CurrentType
    <2> DEFINE c == Client
    <2> HIDE DEF c
    <2>3. c \in Clients /\ Then(c, Tail(todo[c])) /\ Tail(todo[c]) \in Seq(Statements(Doer(c)))
      BY <1>8, <2>2 DEF c
    <2>4. PICK d \in Clients : d = c
      BY <2>3
    <2>5. ScriptsOK'
      <3>1. Then(d, Tail(todo[d])) /\ Tail(todo[d]) \in Seq(Statements(Doer(d)'))
        BY <1>4, <2>3, <2>4
      <3> QED BY <1>4, <3>1, ThenType
    <2>6. ServingOK'
      BY <1>8 DEF ServingOK, Idle
    <2> QED BY <1>2, <1>5, <1>6, <2>5, <2>6
  <1>9. serving[1] = Client
    BY DEF Client
  <1> QED BY <1>1, <1>3, <1>7, <1>8, <1>9

LEMMA ExcludeType ==
  ASSUME TypeInv, NEW c \in Clients, Exclude(c), UNCHANGED world
  PROVE  TypeInv'
  <1> USE DEF TypeInv
  <1>1. /\ acked' = acked \cup {c}
        /\ excluded' = excluded \cup (Covered(Current(c).key) \ sending)
        /\ late' = late \cup {b[1] : b \in sending \cap Covered(Current(c).key)}
        /\ UNCHANGED <<db, webVars, todo, dead, gazerVars, sending, chaseVars, halfdone, spent>>
    BY DEF Exclude
  <1>2. RowsOK' /\ SavedOK' /\ BufferOK'
    BY <1>1 DEF RowsOK, CatalogueTypeOK, SavedOK, BufferOK, webVars, secretaryVars
  <1>3. PagesOK'
    BY <1>1 DEF PagesOK, Idle, Command, Key, webVars, secretaryVars, scribeVars
  <1>4. ScriptsOK' /\ ServingOK'
    BY <1>1 DEF ScriptsOK, Doer, ServingOK, Idle, Client, Command, Key, Current, webVars,
       secretaryVars, chaseVars
  <1>5. late' \subseteq Pkgs /\ excluded' \subseteq Builds
    BY <1>1 DEF TasksOK, Covered, Builds
  <1>6. TasksOK'
    BY <1>1, <1>5 DEF TasksOK, gazerVars, chaseVars
  <1> QED BY <1>2, <1>3, <1>4, <1>6

\* A step of a task that is not waiting for TheScribe.
LEMMA ScriptStep ==
  ASSUME TypeInv, NEW c \in Clients, NEW x, Then(c, x),
         todo[c] = <<>> \/ Current(c).do \notin Commands,
         UNCHANGED serving, c # "chase" => UNCHANGED asker,
         NEW t, t = IF c = "chase" THEN asker' ELSE c,
         x \in Seq(Statements(t))
  PROVE  ScriptsOK' /\ ServingOK'
  <1> USE DEF TypeInv
  <1>1. \A d \in Clients : d # c => Doer(d)' = Doer(d)
    BY DEF Doer
  <1>2. ScriptsOK'
    <2>1. t = Doer(c)'
      BY DEF Doer
    <2> QED BY <1>1, <2>1, ThenType
  <1>3. \A d \in Clients : d # c => todo'[d] = todo[d]
    BY ThenTodo DEF ScriptsOK
  <1> QED BY <1>2, <1>3, ServingKept

LEMMA AckedType ==
  ASSUME TypeInv, NEW c \in Clients, Acked(c), UNCHANGED world
  PROVE  TypeInv'
  <1> USE DEF TypeInv
  <1>1. /\ todo[c] # <<>> /\ Current(c).do = "ack"
        /\ acked' = acked \ {c} /\ Then(c, Tail(todo[c]))
        /\ UNCHANGED <<db, webVars, dead, gazerVars, driverVars, chaseVars, history, spent>>
    BY DEF Acked
  <1>2. RowsOK' /\ SavedOK' /\ BufferOK'
    BY <1>1 DEF RowsOK, CatalogueTypeOK, SavedOK, BufferOK, webVars, secretaryVars
  <1>3. PagesOK'
    BY <1>1 DEF PagesOK, Idle, Command, Key, webVars, secretaryVars, scribeVars
  <1>4. ScriptsOK' /\ ServingOK'
    <2>1. Tail(todo[c]) \in Seq(Statements(Doer(c))) /\ UNCHANGED serving /\ UNCHANGED asker
      BY <1>1, CurrentType DEF chaseVars, webVars, secretaryVars
    <2>3. Doer(c) = IF c = "chase" THEN asker' ELSE c
      BY <2>1 DEF Doer
    <2>2. Current(c).do \notin Commands
      BY <1>1 DEF Commands, Rewrites
    <2> QED BY <1>1, <2>1, <2>2, <2>3, ScriptStep
  <1>5. TasksOK'
    BY <1>1 DEF TasksOK, gazerVars, driverVars, chaseVars, history
  <1> QED BY <1>2, <1>3, <1>4, <1>5

LEMMA SpendType ==
  ASSUME TasksOK, NEW what \in {"events", "requests", "faults"}, Spend(what), UNCHANGED world,
         \/ what = "events" /\ spent.events < world.maxEvents
         \/ what = "requests" /\ spent.requests < world.maxRequests
         \/ what = "faults" /\ spent.faults < world.maxFaults
  PROVE  spent' \in [events : 0..world.maxEvents, requests : 0..world.maxRequests,
                     faults : 0..world.maxFaults]
  <1>1. world.maxEvents \in Nat /\ world.maxRequests \in Nat /\ world.maxFaults \in Nat
    BY WorldFacts DEF TasksOK
  <1>2. spent \in [events : 0..world.maxEvents, requests : 0..world.maxRequests,
                     faults : 0..world.maxFaults]
    BY DEF TasksOK
  <1> QED BY <1>1, <1>2 DEF Spend

LEMMA ReadPyPIType ==
  ASSUME TypeInv, NEW e \in PyPIEvents, ReadPyPI(e), UNCHANGED world
  PROVE  TypeInv'
  <1> USE DEF TypeInv
  <1>1. /\ todo["gazer"] = <<>>
        /\ published' = IF e.action = "remove"
                  THEN published \ ({e.key} \cup Covered(e.key))
                  ELSE published \cup {e.key, Package(e.key[1])}
        /\ event' = e /\ Then("gazer", EventScript(e, packages))
        /\ packages' = PackagesAfter(e, packages)
        /\ excluded' = IF e.action = "remove" THEN excluded ELSE excluded \ {e.key}
        /\ Spend("events") /\ spent.events < world.maxEvents
        /\ UNCHANGED <<db, webVars, acked, dead, sending, chaseVars, history>>
    BY DEF ReadPyPI, Free
  <1>2. RowsOK' /\ SavedOK' /\ BufferOK'
    BY <1>1 DEF RowsOK, CatalogueTypeOK, SavedOK, BufferOK, webVars, secretaryVars
  <1>3. PagesOK'
    BY <1>1 DEF PagesOK, Idle, Command, Key, webVars, secretaryVars, scribeVars
  <1>4. ScriptsOK' /\ ServingOK'
    <2>1. EventScript(e, packages) \in Seq(Statements("gazer"))
      BY EventScriptType
    <2>2. "gazer" \in Clients /\ UNCHANGED serving /\ UNCHANGED asker
      BY <1>1, WebsiteAssumption DEF chaseVars, webVars, secretaryVars
    <2> QED BY <1>1, <2>1, <2>2, ScriptStep
  <1>5. e.key \in Keys /\ e.key[1] \in Pkgs /\ Package(e.key[1]) \in Keys
    BY EventKeys, KeyFacts
  <1>6. /\ published' \subseteq Keys /\ packages' \subseteq Pkgs /\ excluded' \subseteq Builds
    <2>1. packages' \in {packages \cup {e.key[1]}, packages \ {e.key[1]}, packages}
      BY <1>1 DEF PackagesAfter
    <2> QED BY <1>1, <1>5, <2>1 DEF TasksOK
  <1>7. TasksOK'
    <2>1. spent' \in [events : 0..world.maxEvents, requests : 0..world.maxRequests,
                      faults : 0..world.maxFaults]
      BY <1>1, SpendType
    <2> QED BY <1>1, <1>6, <2>1 DEF TasksOK, chaseVars, history
  <1> QED BY <1>2, <1>3, <1>4, <1>7

LEMMA SetSerialType ==
  ASSUME TypeInv, SetSerial, UNCHANGED world
  PROVE  TypeInv'
  <1> USE DEF TypeInv, SetSerial
  <1>2. RowsOK' /\ SavedOK' /\ BufferOK'
    BY DEF RowsOK, CatalogueTypeOK, SavedOK, BufferOK, webVars, secretaryVars
  <1>3. PagesOK'
    BY DEF PagesOK, Idle, Command, Key, webVars, secretaryVars, scribeVars
  <1>4. ScriptsOK' /\ ServingOK'
    BY DEF ScriptsOK, Doer, ServingOK, Idle, Client, Command, Key, Current, webVars,
       secretaryVars, chaseVars
  <1>5. TasksOK'
    BY DEF TasksOK, driverVars, chaseVars, history
  <1> QED BY <1>2, <1>3, <1>4, <1>5

\* A step that leaves the database, the pages and what is served alone.
LEMMA Untouched ==
  ASSUME TypeInv, UNCHANGED <<db, webVars>>
  PROVE  RowsOK' /\ BufferOK' /\ SavedOK' /\ PagesOK'
  <1> USE DEF TypeInv
  <1>1. RowsOK' /\ SavedOK' /\ BufferOK'
    BY DEF RowsOK, CatalogueTypeOK, SavedOK, BufferOK, webVars, secretaryVars
  <1>2. PagesOK'
    BY DEF PagesOK, Idle, Command, Key, webVars, secretaryVars, scribeVars
  <1> QED BY <1>1, <1>2

LEMMA BuiltType ==
  ASSUME TypeInv, NEW b \in Builds, Built(b), UNCHANGED world
  PROVE  TypeInv'
  <1> USE DEF TypeInv
  <1>1. /\ sending' = sending \cup {b}
        /\ UNCHANGED <<db, webVars, todo, acked, dead, gazerVars, excluded, chaseVars, history, spent>>
    BY DEF Built
  <1>2. RowsOK' /\ BufferOK' /\ SavedOK' /\ PagesOK'
    BY <1>1, Untouched
  <1>3. ScriptsOK' /\ ServingOK'
    BY <1>1 DEF ScriptsOK, Doer, ServingOK, Idle, Client, Command, Key, Current, webVars,
       secretaryVars, chaseVars
  <1>4. TasksOK'
    BY <1>1 DEF TasksOK, gazerVars, chaseVars, history
  <1> QED BY <1>2, <1>3, <1>4

LEMMA FailedBuildType ==
  ASSUME TypeInv, NEW b \in Builds, FailedBuild(b), UNCHANGED world
  PROVE  TypeInv'
  <1> USE DEF TypeInv
  <1> DEFINE x == <<LogBuild(b, FALSE), Do("LOG", b)>> \o Rewrite("PROJECT", b)
  <1>1. /\ todo["driver"] = <<>> /\ Then("driver", x)
        /\ UNCHANGED <<db, webVars, acked, dead, gazerVars, driverVars, chaseVars, history, spent>>
    BY DEF FailedBuild, Free
  <1>2. RowsOK' /\ BufferOK' /\ SavedOK' /\ PagesOK'
    BY <1>1, Untouched
  <1>3. x \in Seq(Statements("driver"))
    BY BuildScriptType DEF Rewrites
  <1> HIDE DEF x
  <1>4. ScriptsOK' /\ ServingOK'
    <2>1. "driver" \in Clients /\ UNCHANGED serving /\ UNCHANGED asker
      BY <1>1, WebsiteAssumption DEF chaseVars, webVars, secretaryVars
    <2> QED BY <1>1, <1>3, <2>1, ScriptStep
  <1>5. TasksOK'
    BY <1>1 DEF TasksOK, gazerVars, driverVars, chaseVars, history
  <1> QED BY <1>2, <1>4, <1>5

\* One wheel more.
LEMMA StoredType ==
  ASSUME TypeInv, NEW b \in Builds, wheels' = wheels \cup {b},
         UNCHANGED <<db, secretaryVars, stage, data, simple, project, index, cache>>
  PROVE  RowsOK' /\ BufferOK' /\ SavedOK' /\ PagesOK'
  <1> USE DEF TypeInv
  <1>1. RowsOK' /\ SavedOK' /\ BufferOK'
    BY DEF RowsOK, CatalogueTypeOK, SavedOK, BufferOK, secretaryVars
  <1>2. Idle' = Idle /\ Command' = Command /\ Key' = Key
    BY DEF Idle, Command, Key, secretaryVars
  <1>3. PagesOK'
    BY <1>2 DEF PagesOK
  <1> QED BY <1>1, <1>3

LEMMA SentBuildType ==
  ASSUME TypeInv, NEW b \in Builds, SentBuild(b), UNCHANGED world
  PROVE  TypeInv'
  <1> USE DEF TypeInv
  <1> DEFINE x == <<LogBuild(b, TRUE), Do("LOG", b)>> \o Rewrite("BOTH", b)
  <1>1. /\ todo["driver"] = <<>> /\ Then("driver", x)
        /\ sending' = sending \ {b} /\ wheels' = wheels \cup {b}
        /\ UNCHANGED <<db, secretaryVars, stage, data, simple, project, index, cache, acked, dead,
                       gazerVars, excluded, chaseVars, history, spent>>
    BY DEF SentBuild, Free
  <1>2. RowsOK' /\ BufferOK' /\ SavedOK' /\ PagesOK'
    BY <1>1, StoredType
  <1>3. x \in Seq(Statements("driver"))
    BY BuildScriptType DEF Rewrites
  <1> HIDE DEF x
  <1>4. ScriptsOK' /\ ServingOK'
    <2>1. "driver" \in Clients /\ UNCHANGED serving /\ UNCHANGED asker
      BY <1>1, WebsiteAssumption DEF chaseVars, secretaryVars
    <2> QED BY <1>1, <1>3, <2>1, ScriptStep
  <1>5. TasksOK'
    BY <1>1 DEF TasksOK, gazerVars, chaseVars, history
  <1> QED BY <1>2, <1>4, <1>5

LEMMA HandleImportType ==
  ASSUME TypeInv, NEW r \in ChaseRequests, HandleImport(r), UNCHANGED world
  PROVE  TypeInv'
  <1> USE DEF TypeInv
  <1>1. /\ todo["chase"] = <<>> /\ Then("chase", ChaseScript(r))
        /\ r.tool \in world.requests
        /\ Spend("requests") /\ spent.requests < world.maxRequests
        /\ asker' = r.tool /\ touched' = FALSE
        /\ UNCHANGED <<db, webVars, acked, dead, gazerVars, driverVars, importing, history>>
    BY DEF HandleImport, Free
  <1>2. RowsOK' /\ BufferOK' /\ SavedOK' /\ PagesOK'
    BY <1>1, Untouched
  <1>3. ChaseScript(r) \in Seq(Statements(r.tool))
    BY RowFacts, ChaseScriptType
  <1>4. ScriptsOK' /\ ServingOK'
    <2>1. "chase" \in Clients /\ UNCHANGED serving
      BY <1>1, WebsiteAssumption DEF webVars, secretaryVars
    <2>2. r.tool = asker'
      BY <1>1
    <2> QED BY <1>1, <1>3, <2>1, <2>2, ScriptStep
  <1>5. TasksOK'
    <2>1. spent' \in [events : 0..world.maxEvents, requests : 0..world.maxRequests,
                      faults : 0..world.maxFaults]
      BY <1>1, SpendType
    <2> QED BY <1>1, <2>1 DEF TasksOK, gazerVars, driverVars, history
  <1> QED BY <1>2, <1>4, <1>5

LEMMA ReplyType ==
  ASSUME TypeInv, Reply, UNCHANGED world
  PROVE  TypeInv'
  <1> USE DEF TypeInv
  <1> DEFINE s == Current("chase")
  <1>1. /\ todo["chase"] # <<>> /\ s.do \in {"DONE", "ERROR", "expect"}
        /\ halfdone' = IF s.do = "ERROR" /\ touched THEN halfdone \cup {s.key[1]} ELSE halfdone
        /\ importing' = IF s.do = "expect" THEN importing \cup {s.key} ELSE importing
        /\ Then("chase", <<>>) /\ asker' = "" /\ touched' = FALSE
        /\ UNCHANGED <<db, webVars, acked, dead, gazerVars, driverVars, late, spent>>
    BY DEF Reply
  <1>2. "chase" \in Clients
    BY WebsiteAssumption
  <1>3. /\ s.key[1] \in Pkgs
        /\ s.do = "expect" => s.key \in Builds /\ asker = "piw-import"
    BY <1>1, <1>2, CurrentType DEF Sound, Doer
  <1>4. RowsOK' /\ BufferOK' /\ SavedOK' /\ PagesOK'
    BY <1>1, Untouched
  <1>5. ScriptsOK' /\ ServingOK'
    <2>1. UNCHANGED serving /\ s.do \notin Commands
      BY <1>1 DEF webVars, secretaryVars, Commands, Rewrites
    <2>2. <<>> \in Seq(Statements(""))
      BY EmptyInSeq
    <2>3. "" = asker'
      BY <1>1
    <2> QED BY <1>1, <1>2, <2>1, <2>2, <2>3, ScriptStep
  <1>6. importing' \subseteq Builds /\ (importing' # {} => "piw-import" \in world.requests)
    BY <1>1, <1>3 DEF TasksOK
  <1>7. TasksOK'
    BY <1>1, <1>3, <1>6 DEF TasksOK, gazerVars, driverVars
  <1> QED BY <1>4, <1>5, <1>7

LEMMA SentImportType ==
  ASSUME TypeInv, NEW b \in Builds, SentImport(b), UNCHANGED world
  PROVE  TypeInv'
  <1> USE DEF TypeInv
  <1>1. /\ todo["chase"] = <<>> /\ Then("chase", DoSent(b)) /\ b \in importing
        /\ importing' = importing \ {b} /\ wheels' = wheels \cup {b}
        /\ asker' = "piw-import"
        /\ late' \in {late, late \cup {b[1]}}
        /\ UNCHANGED <<db, secretaryVars, stage, data, simple, project, index, cache, acked, dead,
                       gazerVars, driverVars, touched, halfdone, spent>>
    BY DEF SentImport, Free
  <1>2. RowsOK' /\ BufferOK' /\ SavedOK' /\ PagesOK'
    BY <1>1, StoredType
  <1>3. ScriptsOK' /\ ServingOK'
    <2>1. "chase" \in Clients /\ UNCHANGED serving
      BY <1>1, WebsiteAssumption DEF secretaryVars
    <2>2. DoSent(b) \in Seq(Statements("piw-import"))
      BY DoSentType
    <2>3. "piw-import" = asker'
      BY <1>1
    <2> QED BY <1>1, <2>1, <2>2, <2>3, ScriptStep
  <1>4. b[1] \in Pkgs
    BY DEF Builds
  <1>5. TasksOK'
    BY <1>1, <1>4 DEF TasksOK, gazerVars, driverVars
  <1> QED BY <1>2, <1>3, <1>5

LEMMA StartType ==
  ASSUME TypeInv, NEW table, Start(table), table \in {saved, Pending},
         spent' \in [events : 0..world.maxEvents, requests : 0..world.maxRequests,
                     faults : 0..world.maxFaults],
         UNCHANGED world
  PROVE  TypeInv'
  <1> USE DEF TypeInv
  <1>1. /\ Load(table) /\ ScribeOnce
        /\ todo' = [c \in Clients |->
                IF c = "gazer" /\ event # NoEvent
                THEN EventScript(event, db.pkgs) ELSE <<>>]
        /\ packages' = IF event = NoEvent THEN db.pkgs ELSE PackagesAfter(event, db.pkgs)
        /\ acked' = {} /\ sending' = {} /\ excluded' = {} /\ importing' = {}
        /\ asker' = "" /\ touched' = FALSE
        /\ halfdone' = halfdone \cup {b[1] : b \in importing}
        /\ UNCHANGED <<db, dead, published, event, late>>
    BY DEF Start
  <1>2. BufferOK' /\ SavedOK'
    <2>1. /\ table \in Seq(Pkgs \X Rewrites)
          /\ \A i, j \in 1..Len(table) : table[i][1] = table[j][1] => i = j
      BY PendingType DEF SavedOK
    <2> QED BY <1>1, <2>1, LoadType
  <1>3. RowsOK'
    BY <1>1 DEF RowsOK, CatalogueTypeOK
  <1>4. PagesOK'
    BY <1>1, RowFacts DEF ScribeOnce, PagesOK
  <1>5. ServingOK'
    BY <1>1 DEF Load, ServingOK, Idle
  <1>6. ScriptsOK'
    <2>1. DOMAIN todo' = Clients
      BY <1>1
    <2>2. ASSUME NEW c \in Clients PROVE todo'[c] \in Seq(Statements(Doer(c)'))
      <3>1. CASE c = "gazer" /\ event # NoEvent
        <4>1. event \in PyPIEvents
          BY <3>1 DEF TasksOK
        <4>2. todo'[c] = EventScript(event, db.pkgs)
          BY <1>1, <3>1
        <4> QED BY <3>1, <4>1, <4>2, EventScriptType DEF Doer
      <3>2. CASE ~(c = "gazer" /\ event # NoEvent)
        BY <1>1, <3>2, EmptyInSeq
      <3> QED BY <3>1, <3>2
    <2> QED BY <2>1, <2>2 DEF ScriptsOK
  <1>7. packages' \subseteq Pkgs
    <2>1. CASE event = NoEvent
      BY <1>1, <2>1, RowFacts
    <2>2. CASE event # NoEvent
      <3>1. event.key[1] \in Pkgs
        BY <2>2, EventKeys, KeyFacts DEF TasksOK
      <3>2. packages' \in {db.pkgs \cup {event.key[1]}, db.pkgs \ {event.key[1]}, db.pkgs}
        BY <1>1, <2>2 DEF PackagesAfter
      <3> QED BY <3>1, <3>2, RowFacts
    <2> QED BY <2>1, <2>2
  <1>8. halfdone' \subseteq Pkgs
    BY <1>1 DEF TasksOK, Builds
  <1>9. TasksOK'
    BY <1>1, <1>7, <1>8 DEF TasksOK
  <1> QED BY <1>2, <1>3, <1>4, <1>5, <1>6, <1>9

LEMMA RestartType ==
  ASSUME TypeInv, Restart \/ Crash, UNCHANGED world
  PROVE  TypeInv'
  <1>1. /\ Spend("faults") /\ spent.faults < world.maxFaults
        /\ Start(Pending) \/ Start(saved)
    BY DEF Restart, Crash
  <1>2. spent' \in [events : 0..world.maxEvents, requests : 0..world.maxRequests,
                    faults : 0..world.maxFaults]
    BY <1>1, SpendType DEF TypeInv
  <1> QED BY <1>1, <1>2, StartType

LEMMA TypeInit == Init => TypeInv
  <1> SUFFICES ASSUME Init PROVE TypeInv
    OBVIOUS
  <1> USE DEF Init
  <1>1. RowsOK
    BY FS_EmptySet DEF CatalogueInit, RowsOK, CatalogueTypeOK, SkipReasons
  <1> HIDE DEF Init
  <1>2. BufferOK
    <2>1. buffer = <<>> /\ commands = <<>>
      BY DEF Init, SecretaryInit
    <2>2. <<>> \in Seq(Pkgs)
      BY EmptyInSeq
    <2>3. DOMAIN <<>> = {}
      OBVIOUS
    <2>4. <<>> \in [{} -> Rewrites]
      OBVIOUS
    <2> QED BY <2>1, <2>2, <2>3, <2>4 DEF BufferOK, ToSet, IsInjective
  <1>3. SavedOK
    <2>1. saved = <<>>
      BY DEF Init, SecretaryInit
    <2>2. <<>> \in Seq(Pkgs \X Rewrites) /\ Len(<<>>) = 0
      BY EmptyInSeq
    <2> QED BY <2>1, <2>2 DEF SavedOK
  <1> USE DEF Init
  <1>4. ServingOK
    BY DEF SecretaryInit, ServingOK, Idle
  <1>5. PagesOK
    BY DEF ScribeInit, PagesOK
  <1>6. ScriptsOK
    <2>1. \A c \in Clients : todo[c] = <<>>
      OBVIOUS
    <2> QED BY <2>1, EmptyInSeq DEF ScriptsOK
  <1>7. TasksOK
    <2>1. world \in Worlds /\ world.maxEvents \in Nat /\ world.maxRequests \in Nat
          /\ world.maxFaults \in Nat
      BY WorldFacts
    <2> HIDE DEF Init
    <2>2. spent \in [events : 0..world.maxEvents, requests : 0..world.maxRequests,
                     faults : 0..world.maxFaults]
      <3>1. /\ 0 \in 0..world.maxEvents /\ 0 \in 0..world.maxRequests
            /\ 0 \in 0..world.maxFaults
        BY <2>1
      <3>2. spent = [events |-> 0, requests |-> 0, faults |-> 0]
        BY DEF Init
      <3> QED BY <3>1, <3>2
    <2>3. touched \in BOOLEAN /\ event \in PyPIEvents \cup {NoEvent}
      BY DEF Init
    <2>4. /\ published = {} /\ packages = {} /\ late = {} /\ halfdone = {} /\ sending = {}
          /\ excluded = {} /\ importing = {} /\ acked = {} /\ dead = {} /\ asker = ""
      BY DEF Init
    <2> QED BY <2>1, <2>2, <2>3, <2>4 DEF TasksOK
  <1> QED BY <1>1, <1>2, <1>3, <1>4, <1>5, <1>6, <1>7 DEF TypeInv

LEMMA TypeStutter ==
  ASSUME TypeInv, UNCHANGED <<vars, world>>
  PROVE  TypeInv'
  <1> USE DEF TypeInv
  <1>1. UNCHANGED <<db, webVars>>
    BY DEF vars
  <1>2. RowsOK' /\ BufferOK' /\ SavedOK' /\ PagesOK'
    BY <1>1, Untouched
  <1>3. ScriptsOK' /\ ServingOK'
    BY DEF vars, ScriptsOK, Doer, ServingOK, Idle, Client, Command, Key, Current, webVars,
       secretaryVars, chaseVars
  <1>4. TasksOK'
    BY DEF vars, TasksOK, gazerVars, driverVars, chaseVars, history
  <1> QED BY <1>2, <1>3, <1>4

LEMMA TypeStep == TypeInv /\ [Next]_<<vars, world>> => TypeInv'
  <1> SUFFICES ASSUME TypeInv, [Next]_<<vars, world>> PROVE TypeInv'
    OBVIOUS
  <1>1. CASE UNCHANGED <<vars, world>>
    BY <1>1, TypeStutter
  <1>2. CASE Step /\ UNCHANGED world
    <2>1. CASE \E c \in Clients : Transact(c) \/ Ask(c) \/ Exclude(c) \/ Acked(c)
      BY <1>2, <2>1, TransactType, AskType, ExcludeType, AckedType
    <2>2. CASE Due \/ Write \/ SetSerial \/ Reply
      BY <1>2, <2>2, DueType, WriteType, SetSerialType, ReplyType
    <2>3. CASE \E b \in Builds : Built(b) \/ FailedBuild(b) \/ SentBuild(b) \/ SentImport(b)
      BY <1>2, <2>3, BuiltType, FailedBuildType, SentBuildType, SentImportType
    <2>4. CASE \E e \in PyPIEvents : ReadPyPI(e)
      BY <1>2, <2>4, ReadPyPIType
    <2>5. CASE \E r \in ChaseRequests : HandleImport(r)
      BY <1>2, <2>5, HandleImportType
    <2>6. CASE Restart \/ Crash
      BY <1>2, <2>6, RestartType
    <2>7. CASE Over
      BY <1>2, <2>7, TypeStutter DEF Over
    <2> QED BY <1>2, <2>1, <2>2, <2>3, <2>4, <2>5, <2>6, <2>7 DEF Step
  <1> QED BY <1>1, <1>2 DEF Next

\* Every variable of the site keeps to its type in every world: the buffer and
\* its commands name the same packages, each once, so that TheSecretary never
\* pops what is not there; no tool of the operator is answered with a code it
\* does not know; TheScribe writes only what it has read.
THEOREM WebsiteTypes == Spec => []TypeOK
  <1>1. Spec => []TypeInv
    BY TypeInit, TypeStep, PTL DEF Spec
  <1> QED BY <1>1, TypeInvImplies, PTL

=============================================================================
