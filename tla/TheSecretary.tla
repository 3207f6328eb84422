----------------------------- MODULE TheSecretary -----------------------------
(***************************************************************************)
(* TheSecretary: the buffer of page rewrites in front of TheScribe.  It    *)
(* serves one request at a time and waits for TheScribe whenever it passes *)
(* one on; "serving" is whom it does that for.                             *)
(***************************************************************************)
EXTENDS Catalogue, SequencesExt

CONSTANTS
  Clients,   \* the tasks that send requests
  Itself     \* TheSecretary, when it passes on what it buffered

ASSUME SecretaryAssumption == Itself \notin Clients

VARIABLES
  buffer,    \* packages in the order in which they were buffered
  commands,  \* for the packages in buffer, PROJECT or BOTH
  serving,   \* <<client, command, key>> sent on to TheScribe, or <<>>
  saved      \* the table rewrites_pending: a sequence of <<package, command>>

secretaryVars == <<buffer, commands, serving, saved>>

Rewrites == {"PROJECT", "BOTH"}
Commands == Rewrites \cup {"LOG", "DEL"}

\* The buffer and the commands name the same packages, each once: otherwise
\* handle_output's pop raises KeyError and ends TheSecretary.
SecretaryTypeOK ==
  /\ buffer \in Seq(Pkgs)
  /\ ToSet(buffer) = DOMAIN commands /\ IsInjective(buffer)
  /\ commands \in UNION {[P -> Rewrites] : P \in SUBSET Pkgs}
  /\ serving \in (Clients \cup {Itself}) \X Commands \X Keys \cup {<<>>}
  /\ saved \in Seq(Pkgs \X Rewrites)

SecretaryInit == buffer = <<>> /\ commands = <<>> /\ serving = <<>> /\ saved = <<>>

Idle == serving = <<>>

-----------------------------------------------------------------------------
\* The commands with that of one more package.
With(p, cmd) ==
  [q \in DOMAIN commands \cup {p} |-> IF q = p THEN cmd ELSE commands[q]]

\* Mutant of Remember: a PROJECT that is waiting is not upgraded to BOTH.
RememberFirst(p, cmd) ==
  IF p \in DOMAIN commands THEN UNCHANGED <<buffer, commands>>
  ELSE buffer' = Append(buffer, p) /\ commands' = With(p, cmd)

\* PROJECT and BOTH are buffered, once per package: a later BOTH upgrades the
\* command and leaves the entry where it is.
Remember(p, cmd) ==
  IF p \in DOMAIN commands
  THEN /\ commands' = [commands EXCEPT ![p] = IF cmd = "BOTH" THEN cmd ELSE @]
       /\ UNCHANGED buffer
  ELSE buffer' = Append(buffer, p) /\ commands' = With(p, cmd)

\* Mutant of Expunge: the command goes, the entry stays.
ExpungeCommand(p) ==
  commands' = [q \in DOMAIN commands \ {p} |-> commands[q]] /\ UNCHANGED buffer

\* Mutant of Expunge: what is buffered stays buffered.
ExpungeNothing(p) == UNCHANGED <<buffer, commands>>

\* DELPKG and DELVER take the package out of the buffer.
Expunge(p) ==
  IF p \in DOMAIN commands
  THEN /\ commands' = [q \in DOMAIN commands \ {p} |-> commands[q]]
       /\ buffer' = RemoveFirst(buffer, p)
  ELSE UNCHANGED <<buffer, commands>>

\* A request of client c.  Those that are buffered are answered at once, the
\* others when TheScribe is done.
HandleInput(c, cmd, key) ==
  /\ Idle
  /\ IF cmd \in Rewrites
     THEN Remember(key[1], cmd) /\ UNCHANGED serving
     ELSE /\ serving' = <<c, cmd, key>>
          /\ IF cmd = "DEL" THEN Expunge(key[1]) ELSE UNCHANGED <<buffer, commands>>
  /\ UNCHANGED saved

\* The first entry has been waiting for more than a minute.
HandleOutput ==
  /\ Idle
  /\ buffer # <<>>
  /\ LET p == Head(buffer)
     IN /\ serving' = <<Itself, commands[p], Package(p)>>
        /\ commands' = [q \in DOMAIN commands \ {p} |-> commands[q]]
        /\ buffer' = Tail(buffer)
  /\ UNCHANGED saved

\* TheScribe's DONE.
HandleDone ==
  /\ serving' = <<>>
  /\ UNCHANGED <<buffer, commands, saved>>

-----------------------------------------------------------------------------
\* once: what the table holds is read, and stays in the table.
Load(table) ==
  /\ buffer' = [i \in 1..Len(table) |-> table[i][1]]
  /\ commands' = [p \in {table[i][1] : i \in 1..Len(table)} |->
                    LET i == CHOOSE j \in 1..Len(table) : table[j][1] = p
                    IN table[i][2]]
  /\ serving' = <<>>
  /\ saved' = table

\* close: the table is replaced by what is in the buffer.
Pending == [i \in 1..Len(buffer) |-> <<buffer[i], commands[buffer[i]]>>]
=============================================================================
