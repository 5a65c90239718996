---------------------------- MODULE CommandLine ----------------------------
(***************************************************************************)
(* What main makes of its arguments: parseGlobalFlags, and the options of  *)
(* the command.  An argument is one of a few tokens: a flag in its short   *)
(* form stands for both forms, and "w" for any other word.                 *)
(***************************************************************************)
EXTENDS Integers, Sequences, FiniteSets

Switches == {"-j", "-v", "-h"}
GlobalFlags == Switches \cup {"-c"}
Dashed == {"--keep", "-1"}
Words == {"deploy", "rollback", "status", "prune", "help", "manual", "w", "2"}
Tokens == GlobalFlags \cup Dashed \cup Words \cup {"--"}

VARIABLES
  args,  \* os.Args[1:], until main has looked at them
  pos,   \* i + 1: the argument that the loop comes to next
  flags  \* what it has made of those before: flags, remaining and err

cmdvars == <<args, pos, flags>>

\* jsonOutput, showVer and showHelp are one set, of the switches that are on.
NoFlags == [config |-> "", on |-> {}, remaining |-> <<>>, error |-> "none"]

CommandTypeOK ==
  /\ args \in Seq(Tokens)
  /\ pos \in Nat \ {0}
  /\ flags \in [config : Tokens \cup {""}, on : SUBSET Switches, remaining : Seq(Tokens),
                error : {"none", "noArgument", "unknownFlag"}]

CommandInit == args \in Seq(Tokens) /\ pos = 1 /\ flags = NoFlags

Parsed == flags.error # "none" \/ pos > Len(args)

\* Variant: the path of a -c is not skipped.
TakeOne(field, value, n) ==
  /\ flags' = [flags EXCEPT ![field] = value]
  /\ pos' = pos + 1

Take(field, value, n) ==
  /\ flags' = [flags EXCEPT ![field] = value]
  /\ pos' = pos + n

\* One iteration of parseGlobalFlags, whose commandSeen is that there are
\* remaining arguments.  Of several paths the last counts.
ParseArgument ==
  /\ ~Parsed
  /\ LET arg == args[pos]
         rest == SubSeq(args, pos + 1, Len(args))
     IN  \/ arg = "--" /\ Take("remaining", flags.remaining \o rest, 1 + Len(rest))
         \/ arg = "-c" /\ rest # <<>> /\ Take("config", Head(rest), 2)
         \/ arg = "-c" /\ rest = <<>> /\ Take("error", "noArgument", 0)
         \/ arg \in Switches /\ Take("on", flags.on \cup {arg}, 1)
         \/ arg \in Dashed /\ flags.remaining = <<>> /\ Take("error", "unknownFlag", 0)
         \/ /\ arg \in Words \/ (arg \in Dashed /\ flags.remaining # <<>>)
            /\ Take("remaining", Append(flags.remaining, arg), 1)
  /\ UNCHANGED args

\* fmt.Sscanf of a number; 0 where there is none.
ParseInt(token) == CASE token = "2" -> 2 [] token = "-1" -> -1 [] OTHER -> 0

\* The value of the first --keep that has one, behind the service's name.
Keep(cmdArgs) ==
  LET at == {i \in 2..Len(cmdArgs) - 1 : cmdArgs[i] = "--keep"}
  IN  IF at = {} THEN 0
      ELSE ParseInt(cmdArgs[1 + CHOOSE i \in at : \A j \in at : i <= j])

\* What main's switch looks at: the command, how many arguments it has, the
\* service, the limit of a prune, and whether a path was given.
Options ==
  LET cmdArgs == Tail(flags.remaining)
      n == Len(cmdArgs)
  IN  [cmd |-> Head(flags.remaining), n |-> n,
       service |-> IF n = 0 THEN "" ELSE cmdArgs[1],
       keep |-> Keep(cmdArgs),
       path |-> flags.config # ""]

-----------------------------------------------------------------------------
(* What the loop is to make of the arguments, without the loop             *)

\* The i-th argument is the path of the -c before it when the -c's right
\* before it are odd in number: of two in a row the first takes the second.
RunOfC(i) == {k \in 1..i - 1 : \A j \in k..i - 1 : args[j] = "-c"}
IsPath(i) == Cardinality(RunOfC(i)) % 2 = 1

\* It is behind a "--", and is passed on whatever it is.
Behind(i) == \E j \in 1..i - 1 : args[j] = "--" /\ ~IsPath(j)

IsFlag(i, flag) == args[i] = flag /\ ~IsPath(i) /\ ~Behind(i)
IsPlain(i) == Behind(i) \/ (~IsPath(i) /\ args[i] \notin GlobalFlags \cup {"--"})
Plain(n) == {i \in 1..n : IsPlain(i)}

\* A -c without a path, or a flag that is not global ahead of the command.
LacksPath(i) == IsFlag(i, "-c") /\ i = Len(args)
IsUnknown(i) == args[i] \in Dashed /\ IsPlain(i) /\ ~Behind(i) /\ Plain(i - 1) = {}

\* The flags are those among the first n arguments, and the command and its
\* arguments are the plain ones of them, in their order.
Reads(n) ==
  /\ flags.on = {flag \in Switches : \E i \in 1..n : IsFlag(i, flag)}
  /\ (\A i \in 1..n : ~IsFlag(i, "-c")) => flags.config = ""
  /\ \A i \in 1..n :
       IsFlag(i, "-c") /\ (\A j \in i + 1..n : ~IsFlag(j, "-c")) => flags.config = args[i + 1]
  /\ Len(flags.remaining) = Cardinality(Plain(n))
  /\ \A i \in Plain(n) : flags.remaining[Cardinality(Plain(i))] = args[i]

\* "Global flags are supported before or after the command", in any number
\* and order, also as the path of one another, and up to a "--".
FlagsAnywhere ==
  Parsed =>
    CASE flags.error = "noArgument" -> \E i \in 1..Len(args) : LacksPath(i)
      [] flags.error = "unknownFlag" -> \E i \in 1..Len(args) : IsUnknown(i)
      [] OTHER -> /\ \A i \in 1..Len(args) : ~LacksPath(i) /\ ~IsUnknown(i)
                  /\ Reads(Len(args))
=============================================================================
