---------------------------- MODULE ProcessProofs ----------------------------
(***************************************************************************)
(* Proofs about a svc-deploy process, for any arguments, deploy maps and   *)
(* timeouts: its poll of the health URL ends by its deadline and times out *)
(* for no service that came up in time, and its exit status is right.      *)
(***************************************************************************)
EXTENDS Process, FiniteSetTheorems, TLAPS

-----------------------------------------------------------------------------
(* The poll                                                                *)

\* A poll that has nothing to do until the next tick has just seen the
\* service fail, and a check that outlasted a tick was sent to one that was
\* not up.
HealthInv ==
  /\ HealthTypeOK
  /\ PollEndsInTime
  /\ NoFalseTimeout
  /\ poll = "off" => now = 0 /\ lastBad = 0 /\ ticks = 0
  /\ poll # "off" /\ service # "up" => lastBad = now
  /\ poll = "waiting" /\ ticks = 0 /\ ~Expired => lastBad = now
  /\ poll = "checking" /\ began < now =>
       ticks = 1 /\ began <= lastBad /\ now <= began + ClientTimeout
  /\ Polling /\ Expired => deadline <= lastBad + ClientTimeout

\* HealthInv holds before a poll.
LEMMA HealthInvInit == HealthInit => HealthInv
  BY HealthAssumption DEF HealthInit, HealthInv, HealthTypeOK, PollEndsInTime, NoFalseTimeout,
         Polling, Expired, Conditions

\* Every step of a poll keeps HealthInv.
LEMMA HealthInvStep == HealthInv /\ [HealthNext]_healthvars => HealthInv'
<1> SUFFICES ASSUME HealthInv, [HealthNext]_healthvars PROVE HealthInv'
  OBVIOUS
<1> USE HealthAssumption DEF HealthInv, HealthTypeOK, PollEndsInTime, NoFalseTimeout, Polling,
            Expired, GivenUp, Conditions
<1>1. ASSUME NEW d \in Int, PollBegin(d) PROVE HealthInv'
  BY <1>1 DEF PollBegin
<1>2. CASE TimeOut
  BY <1>2 DEF TimeOut
<1>3. CASE TakeTick
  BY <1>3 DEF TakeTick
<1>4. CASE CheckPasses
  BY <1>4 DEF CheckPasses
<1>5. CASE CheckFails
  BY <1>5 DEF CheckFails
<1>6. CASE Pass
  <2> USE <1>6 DEF Pass, Idle
  <2>1. now' \in Nat /\ ~Expired /\ Polling
    OBVIOUS
  <2>2. now' <= lastBad' + ClientTimeout
    OBVIOUS
  <2>3. HealthTypeOK'
    OBVIOUS
  <2>4. PollEndsInTime' /\ NoFalseTimeout'
    BY <2>1
  <2> QED
    BY <2>1, <2>2, <2>3, <2>4
<1>7. CASE UNCHANGED healthvars
  BY <1>7 DEF healthvars
<1> QED
  BY <1>1, <1>2, <1>3, <1>4, <1>5, <1>6, <1>7 DEF HealthNext, PollStep

\* The invariant of a poll by itself.
LEMMA PollIsSound == HealthSpec => []HealthInv
  BY HealthInvInit, HealthInvStep, PTL DEF HealthSpec

-----------------------------------------------------------------------------
(* The arguments *)

\* The loop comes to no path and to nothing behind a "--", and has read what
\* is before it.
ReadSoFar(n) ==
  /\ ~IsPath(n + 1) /\ ~Behind(n + 1)
  /\ \A i \in 1..n : ~LacksPath(i) /\ ~IsUnknown(i)
  /\ Reads(n)

ParseInv ==
  /\ CommandTypeOK
  /\ ~Parsed => ReadSoFar(pos - 1)
  /\ FlagsAnywhere

\* Which of two arguments in a row are paths: the second one, when the first
\* is a -c that is not a path itself.
LEMMA PathsAlternate ==
  /\ ~IsPath(1)
  /\ \A i \in Nat \ {0} : IsPath(i + 1) <=> args[i] = "-c" /\ ~IsPath(i)
<1>1. ASSUME NEW i \in Nat \ {0}
      PROVE  /\ IsFiniteSet(RunOfC(i)) /\ Cardinality(RunOfC(i)) \in Nat
             /\ i \notin RunOfC(i)
  <2>1. RunOfC(i) \in SUBSET (1..i - 1) /\ IsFiniteSet(1..i - 1)
    BY FS_Interval DEF RunOfC
  <2> QED
    BY <2>1, FS_Subset, FS_CardinalityType
<1>2. ASSUME NEW i \in Nat \ {0}, args[i] = "-c"
      PROVE  Cardinality(RunOfC(i + 1)) = Cardinality(RunOfC(i)) + 1
  <2>1. RunOfC(i + 1) = RunOfC(i) \cup {i}
    BY <1>2 DEF RunOfC
  <2> QED
    BY <1>1, <2>1, FS_AddElement
<1>3. ASSUME NEW i \in Nat \ {0}, args[i] # "-c"
      PROVE  Cardinality(RunOfC(i + 1)) = 0
  <2>1. RunOfC(i + 1) = {}
    BY <1>3 DEF RunOfC
  <2> QED
    BY <2>1, FS_EmptySet
<1>4. Cardinality(RunOfC(1)) = 0
  <2>1. RunOfC(1) = {}
    BY DEF RunOfC
  <2> QED
    BY <2>1, FS_EmptySet
<1> QED
  BY <1>1, <1>2, <1>3, <1>4 DEF IsPath

\* What is behind a "--" that is no path.
LEMMA BehindGrows ==
  /\ ~Behind(1)
  /\ \A i \in Nat \ {0} : Behind(i + 1) <=> Behind(i) \/ (args[i] = "--" /\ ~IsPath(i))
  BY DEF Behind

\* The plain arguments among the first n + 1.
LEMMA PlainGrows ==
  ASSUME NEW n \in Nat
  PROVE  /\ IsFiniteSet(Plain(n)) /\ Cardinality(Plain(n)) \in Nat
         /\ n + 1 \notin Plain(n)
         /\ IsPlain(n + 1) => /\ Plain(n + 1) = Plain(n) \cup {n + 1}
                              /\ Cardinality(Plain(n + 1)) = Cardinality(Plain(n)) + 1
         /\ ~IsPlain(n + 1) => Plain(n + 1) = Plain(n)
<1>1. IsFiniteSet(Plain(n)) /\ Cardinality(Plain(n)) \in Nat
  <2>1. Plain(n) \in SUBSET (1..n) /\ IsFiniteSet(1..n)
    BY FS_Interval DEF Plain
  <2> QED
    BY <2>1, FS_Subset, FS_CardinalityType
<1>2. n + 1 \notin Plain(n)
  BY DEF Plain
<1>3. IsPlain(n + 1) => Plain(n + 1) = Plain(n) \cup {n + 1}
  BY DEF Plain
<1>4. ~IsPlain(n + 1) => Plain(n + 1) = Plain(n)
  BY DEF Plain
<1> QED
  BY <1>1, <1>2, <1>3, <1>4, FS_AddElement

\* None of the first n arguments is plain, or the places of those that are.
LEMMA PlacesOfPlain ==
  ASSUME NEW n \in Nat, NEW i \in Plain(n)
  PROVE  /\ i \in 1..n /\ Plain(i) \subseteq Plain(n)
         /\ Cardinality(Plain(i)) \in 1..Cardinality(Plain(n))
<1>1. i \in 1..n /\ i \in Plain(i) /\ Plain(i) \subseteq Plain(n)
  BY DEF Plain
<1>2. IsFiniteSet(Plain(i)) /\ IsFiniteSet(Plain(n))
  BY <1>1, PlainGrows
<1>3. Cardinality(Plain(i)) \in Nat /\ Cardinality(Plain(i)) <= Cardinality(Plain(n))
  BY <1>1, <1>2, FS_Subset, FS_CardinalityType
<1>4. Cardinality(Plain(i)) # 0
  BY <1>1, <1>2, FS_EmptySet
<1> QED
  BY <1>1, <1>2, <1>3, <1>4, FS_CardinalityType

\* What is said of the arguments does not depend on what has become of them.
LEMMA SameArgs ==
  ASSUME UNCHANGED args
  PROVE  \A i : /\ IsPath(i)' <=> IsPath(i)
                /\ Behind(i)' <=> Behind(i)
                /\ IsPlain(i)' <=> IsPlain(i)
                /\ Plain(i)' = Plain(i)
                /\ LacksPath(i)' <=> LacksPath(i)
                /\ IsUnknown(i)' <=> IsUnknown(i)
                /\ \A flag : IsFlag(i, flag)' <=> IsFlag(i, flag)
  BY DEF IsPath, RunOfC, Behind, IsPlain, Plain, LacksPath, IsUnknown, IsFlag

\* What an iteration does to one field leaves the others as they are.
LEMMA TakeOneField ==
  ASSUME CommandTypeOK, UNCHANGED args, NEW value, NEW k \in Nat
  PROVE  /\ Take("on", value, k) /\ value \in SUBSET Switches =>
              /\ CommandTypeOK' /\ pos' = pos + k
              /\ flags'.on = value /\ flags'.config = flags.config
              /\ flags'.remaining = flags.remaining /\ flags'.error = flags.error
         /\ Take("config", value, k) /\ value \in Tokens =>
              /\ CommandTypeOK' /\ pos' = pos + k
              /\ flags'.on = flags.on /\ flags'.config = value
              /\ flags'.remaining = flags.remaining /\ flags'.error = flags.error
         /\ Take("remaining", value, k) /\ value \in Seq(Tokens) =>
              /\ CommandTypeOK' /\ pos' = pos + k
              /\ flags'.on = flags.on /\ flags'.config = flags.config
              /\ flags'.remaining = value /\ flags'.error = flags.error
         /\ Take("error", value, k) /\ value \in {"noArgument", "unknownFlag"} =>
              /\ CommandTypeOK' /\ pos' = pos + k /\ flags'.error = value
<1>1. pos + k \in Nat \ {0}
  <2>1. pos \in Nat \ {0}
    BY Zenon DEF CommandTypeOK
  <2> QED
    BY <2>1
<1>2. ASSUME Take("on", value, k), value \in SUBSET Switches
      PROVE  /\ CommandTypeOK' /\ pos' = pos + k
             /\ flags'.on = value /\ flags'.config = flags.config
             /\ flags'.remaining = flags.remaining /\ flags'.error = flags.error
  BY <1>1, <1>2 DEF CommandTypeOK, Take
<1>3. ASSUME Take("config", value, k), value \in Tokens
      PROVE  /\ CommandTypeOK' /\ pos' = pos + k
             /\ flags'.on = flags.on /\ flags'.config = value
             /\ flags'.remaining = flags.remaining /\ flags'.error = flags.error
  BY <1>1, <1>3 DEF CommandTypeOK, Take
<1>4. ASSUME Take("remaining", value, k), value \in Seq(Tokens)
      PROVE  /\ CommandTypeOK' /\ pos' = pos + k
             /\ flags'.on = flags.on /\ flags'.config = flags.config
             /\ flags'.remaining = value /\ flags'.error = flags.error
  BY <1>1, <1>4 DEF CommandTypeOK, Take
<1>5. ASSUME Take("error", value, k), value \in {"noArgument", "unknownFlag"}
      PROVE  CommandTypeOK' /\ pos' = pos + k /\ flags'.error = value
  BY <1>1, <1>5 DEF CommandTypeOK, Take
<1> QED
  BY <1>2, <1>3, <1>4, <1>5

\* An iteration of the loop keeps its invariant.
LEMMA ParseArgumentStep == ParseInv /\ ParseArgument => ParseInv'
<1> SUFFICES ASSUME ParseInv, ParseArgument PROVE ParseInv'
  OBVIOUS
<1> DEFINE n == pos - 1
           arg == args[pos]
           rest == SubSeq(args, pos + 1, Len(args))
           Remaining(f, m) == /\ Len(f.remaining) = Cardinality(Plain(m))
                              /\ \A i \in Plain(m) : f.remaining[Cardinality(Plain(i))] = args[i]
           Config(f, m) ==
             /\ (\A i \in 1..m : ~IsFlag(i, "-c")) => f.config = ""
             /\ \A i \in 1..m :
                  IsFlag(i, "-c") /\ (\A j \in i + 1..m : ~IsFlag(j, "-c"))
                    => f.config = args[i + 1]
           On(f, m) == f.on = {flag \in Switches : \E i \in 1..m : IsFlag(i, flag)}
           ReadBy(f, m) == Remaining(f, m) /\ Config(f, m) /\ On(f, m)
           Right(m) == \A i \in 1..m : ~LacksPath(i) /\ ~IsUnknown(i)
<1>1. /\ args \in Seq(Tokens) /\ Len(args) \in Nat
      /\ n \in Nat /\ n + 1 = pos /\ pos \in 1..Len(args) /\ arg \in Tokens
      /\ CommandTypeOK /\ ~Parsed /\ flags.error = "none"
  <2>1. CommandTypeOK /\ ~Parsed
    BY Zenon DEF ParseInv, ParseArgument
  <2>2. flags.error = "none" /\ ~(pos > Len(args))
    BY <2>1, Zenon DEF Parsed
  <2>3. args \in Seq(Tokens) /\ pos \in Nat \ {0}
    BY <2>1, Zenon DEF CommandTypeOK
  <2> QED
    BY <2>1, <2>2, <2>3
<1>2. args' = args
  BY DEF ParseArgument
<1>3. /\ ~IsPath(pos) /\ ~Behind(pos)
      /\ Right(n)
      /\ ReadBy(flags, n)
  BY <1>1, Zenon DEF ParseInv, ReadSoFar, Reads
<1>4. /\ IsPath(pos + 1) <=> arg = "-c"
      /\ Behind(pos + 1) <=> arg = "--"
      /\ IsPlain(pos) <=> arg \notin GlobalFlags \cup {"--"}
      /\ \A flag : IsFlag(pos, flag) <=> arg = flag
  <2>1. pos \in Nat \ {0}
    BY <1>1
  <2>2. IsPath(pos + 1) <=> arg = "-c"
    BY <1>3, <2>1, PathsAlternate
  <2>3. Behind(pos + 1) <=> arg = "--"
    BY <1>3, <2>1, BehindGrows
  <2> QED
    BY <1>3, <2>2, <2>3 DEF IsPlain, IsFlag
<1>5. rest \in Seq(Tokens) /\ Len(rest) = Len(args) - pos
      /\ \A k \in 1..Len(rest) : rest[k] = args[pos + k]
  BY <1>1
<1> HIDE DEF n, arg, rest, Remaining, Config, On, ReadBy, Right
<1>6. ASSUME NEW m, ReadBy(flags', m) PROVE Reads(m)'
  BY <1>2, <1>6, SameArgs, Zenon DEF Reads, ReadBy, Remaining, Config, On
\* Arguments that are no flags leave the flags as they are.
<1>7. ASSUME NEW m \in pos..Len(args), flags'.config = flags.config,
              \A j \in pos..m : ~IsFlag(j, "-c")
       PROVE  Config(flags', m)
  <2>1. /\ m \in Int /\ n \in 0..m /\ \A i \in 1..m : i \in 1..n \/ i \in pos..m
        /\ \A i, j \in Int : j \in i + 1..m => j \in i + 1..n \/ j \in pos..m
    BY <1>1
  <2>2. \A i \in 1..n : i \in 1..m /\ \A j \in i + 1..n : j \in i + 1..m
    BY <2>1
  <2>3. Config(flags, n)
    BY <1>3 DEF ReadBy
  <2>4. (\A i \in 1..m : ~IsFlag(i, "-c")) => flags'.config = ""
    BY <1>7, <2>2, <2>3 DEF Config
  <2>5. ASSUME NEW i \in 1..m, IsFlag(i, "-c"), \A j \in i + 1..m : ~IsFlag(j, "-c")
        PROVE  flags'.config = args[i + 1]
    <3>1. i \in 1..n
      BY <1>7, <2>1, <2>5
    <3> QED
      BY <1>7, <2>2, <2>3, <2>5, <3>1 DEF Config
  <2> QED
    BY <2>4, <2>5 DEF Config
<1>8. ASSUME NEW m \in pos..Len(args), flags'.on = flags.on,
              \A j \in pos..m : \A flag \in Switches : ~IsFlag(j, flag)
       PROVE  On(flags', m)
  <2>1. \A i \in 1..m : i \in 1..n \/ i \in pos..m
    BY <1>1
  <2>2. \A i \in 1..n : i \in 1..m
    BY <1>1
  <2>3. \A flag \in Switches :
          (\E i \in 1..m : IsFlag(i, flag)) <=> (\E i \in 1..n : IsFlag(i, flag))
    BY <1>8, <2>1, <2>2
  <2> QED
    BY <1>3, <1>8, <2>3 DEF ReadBy, On
\* What is left to show when the loop goes on behind the first m arguments.
<1>9. ASSUME NEW m \in pos..Len(args), pos' = m + 1, CommandTypeOK', flags'.error = "none",
             ~IsPath(m + 1), ~Behind(m + 1), Right(m), ReadBy(flags', m)
      PROVE  ParseInv'
  <2>1. Reads(m)'
    BY <1>6, <1>9
  <2>2. ReadSoFar(m)'
    <3>1. ~IsPath(m + 1)' /\ ~Behind(m + 1)'
      BY <1>2, <1>9, SameArgs
    <3>2. \A i \in 1..m : ~LacksPath(i)' /\ ~IsUnknown(i)'
      BY <1>2, <1>9, SameArgs DEF Right
    <3> QED
      BY <2>1, <3>1, <3>2, Zenon DEF ReadSoFar
  <2>3. pos' - 1 = m /\ (Parsed' => m = Len(args'))
    <3>1. Parsed' => pos' > Len(args')
      BY <1>9, Zenon DEF Parsed
    <3> QED
      BY <1>1, <1>2, <1>9, <3>1
  <2>4. Parsed' => FlagsAnywhere'
    BY <1>9, <2>2, <2>3 DEF FlagsAnywhere, ReadSoFar
  <2>5. FlagsAnywhere'
    BY <2>4 DEF FlagsAnywhere
  <2> QED
    BY <1>9, <2>2, <2>3, <2>5, Zenon DEF ParseInv
\* A refused argument.
<1>10. ASSUME NEW error \in {"noArgument", "unknownFlag"}, Take("error", error, 0),
             error = "noArgument" => LacksPath(pos),
             error = "unknownFlag" => IsUnknown(pos)
      PROVE  ParseInv'
  <2>1. CommandTypeOK' /\ flags'.error = error
    BY <1>1, <1>2, <1>10, TakeOneField
  <2>2. Parsed'
    BY <1>10, <2>1 DEF Parsed
  <2>3. /\ error = "noArgument" => \E i \in 1..Len(args') : LacksPath(i)'
        /\ error = "unknownFlag" => \E i \in 1..Len(args') : IsUnknown(i)'
    BY <1>1, <1>2, <1>10, SameArgs
  <2>4. FlagsAnywhere'
    BY <1>10, <2>1, <2>3 DEF FlagsAnywhere
  <2> QED
    BY <2>1, <2>2, <2>4, Zenon DEF ParseInv
<1>11. CASE arg = "-c" /\ rest = <<>> /\ Take("error", "noArgument", 0)
  <2>1. Len(rest) = 0
    BY <1>11
  <2>2. LacksPath(pos)
    BY <1>1, <1>4, <1>5, <1>11, <2>1 DEF LacksPath
  <2> QED
    BY <1>10, <1>11, <2>2
<1>12. CASE arg \in Dashed /\ flags.remaining = <<>> /\ Take("error", "unknownFlag", 0)
  <2>1. Plain(n) = {}
    BY <1>1, <1>3, <1>12, PlainGrows, FS_EmptySet DEF ReadBy, Remaining
  <2>2. IsUnknown(pos)
    BY <1>1, <1>3, <1>4, <1>12, <2>1 DEF IsUnknown, Dashed, GlobalFlags, Switches, n, arg
  <2> QED
    BY <1>10, <1>12, <2>2
\* A switch.
<1>13. CASE arg \in Switches /\ Take("on", flags.on \cup {arg}, 1)
  <2>1. flags.on \cup {arg} \in SUBSET Switches
    BY <1>1, <1>13 DEF CommandTypeOK
  <2>2. /\ CommandTypeOK' /\ pos' = pos + 1 /\ flags'.error = "none"
        /\ flags'.on = flags.on \cup {arg}
        /\ flags'.remaining = flags.remaining /\ flags'.config = flags.config
    BY <1>1, <1>2, <1>13, <2>1, TakeOneField
  <2>3. arg \in GlobalFlags /\ arg # "-c" /\ arg # "--" /\ arg \notin Dashed
    BY <1>13 DEF GlobalFlags, Switches, Dashed
  <2>4. Plain(pos) = Plain(n)
    BY <1>1, <1>4, <2>3, PlainGrows
  <2>5. Right(pos) /\ ~IsPath(pos + 1) /\ ~Behind(pos + 1)
    <3>1. ~LacksPath(pos) /\ ~IsUnknown(pos)
      BY <1>4, <2>3 DEF LacksPath, IsUnknown, arg
    <3> QED
      BY <1>1, <1>3, <1>4, <2>3, <3>1 DEF Right
  <2>6. Config(flags', pos)
    BY <1>1, <1>4, <1>7, <2>2, <2>3
  <2>7. On(flags', pos)
    <3>1. \A flag : (\E i \in 1..pos : IsFlag(i, flag)) <=> (\E i \in 1..n : IsFlag(i, flag)) \/ arg = flag
      BY <1>1, <1>4
    <3> QED
      BY <1>3, <1>13, <2>2, <3>1 DEF ReadBy, On
  <2>8. Remaining(flags', pos)
    BY <1>3, <2>2, <2>4 DEF ReadBy, Remaining
  <2> QED
    BY <1>1, <1>9, <2>2, <2>5, <2>6, <2>7, <2>8 DEF ReadBy
\* A -c and its path.
<1>14. CASE arg = "-c" /\ rest # <<>> /\ Take("config", Head(rest), 2)
  <2>1. /\ pos + 1 \in 1..Len(args) /\ Head(rest) = args[pos + 1] /\ args[pos + 1] \in Tokens
    <3>1. Len(rest) # 0
      BY <1>5, <1>14
    <3> QED
      BY <1>1, <1>5, <3>1
  <2>3. /\ CommandTypeOK' /\ pos' = pos + 2 /\ flags'.error = "none" /\ flags'.on = flags.on
        /\ flags'.remaining = flags.remaining /\ flags'.config = args[pos + 1]
    BY <1>1, <1>2, <1>14, <2>1, TakeOneField
  <2> DEFINE m == pos + 1
  <2>4. m \in Nat \ {0} /\ m \in pos..Len(args) /\ m # pos /\ pos' = m + 1 /\ 1..m = (1..n) \cup {pos, m}
    BY <1>1, <2>1, <2>3
  <2>5. /\ IsPath(m) /\ ~Behind(m) /\ ~IsPath(m + 1) /\ ~Behind(m + 1)
        /\ ~IsPlain(m) /\ ~IsPlain(pos) /\ \A flag : ~IsFlag(m, flag)
    <3>1. IsPath(m) /\ ~Behind(m)
      BY <1>4, <1>14
    <3>2. ~IsPath(m + 1) /\ ~Behind(m + 1)
      BY <2>4, <3>1, PathsAlternate, BehindGrows
    <3>3. ~IsPlain(pos)
      BY <1>4, <1>14 DEF GlobalFlags
    <3> QED
      BY <3>1, <3>2, <3>3 DEF IsPlain, IsFlag
  <2>6. Plain(m) = Plain(n)
    <3>1. Plain(pos) = Plain(n)
      BY <1>1, <2>5, PlainGrows
    <3>2. Plain(m) = Plain(pos)
      BY <1>1, <2>5, PlainGrows
    <3> QED
      BY <3>1, <3>2
  <2>7. \A flag : IsFlag(pos, flag) <=> flag = "-c"
    BY <1>4, <1>14
  <2>8. Right(m)
    <3>1. ~LacksPath(pos) /\ ~IsUnknown(pos) /\ ~LacksPath(m) /\ ~IsUnknown(m)
      BY <1>1, <2>1, <2>5 DEF LacksPath, IsUnknown
    <3> QED
      BY <1>3, <2>4, <3>1 DEF Right
  <2> HIDE DEF m
  <2>9. Config(flags', m)
    <3>1. pos \in 1..m /\ IsFlag(pos, "-c")
      BY <1>1, <2>4, <2>7
    <3>2. ASSUME NEW i \in 1..m, IsFlag(i, "-c"), \A j \in i + 1..m : ~IsFlag(j, "-c")
          PROVE  flags'.config = args[i + 1]
      <4>1. i # m /\ (i # pos => pos \in i + 1..m)
        BY <1>1, <2>4, <2>5, <3>2 DEF m
      <4>2. i = pos
        BY <3>1, <3>2, <4>1
      <4> QED
        BY <2>3, <4>2
    <3> QED
      BY <3>1, <3>2 DEF Config
  <2>10. On(flags', m)
    <3>1. \A flag \in Switches :
            (\E i \in 1..m : IsFlag(i, flag)) <=> (\E i \in 1..n : IsFlag(i, flag))
      BY <2>4, <2>5, <2>7 DEF Switches
    <3> QED
      BY <1>3, <2>3, <3>1 DEF ReadBy, On
  <2>11. Remaining(flags', m)
    BY <1>3, <2>3, <2>6 DEF ReadBy, Remaining
  <2> QED
    BY <1>9, <2>3, <2>4, <2>5, <2>8, <2>9, <2>10, <2>11 DEF ReadBy
\* A word of the command.
<1>15. ASSUME arg \in Dashed \cup Words, arg \in Dashed => flags.remaining # <<>>,
              Take("remaining", Append(flags.remaining, arg), 1)
       PROVE  ParseInv'
  <2>1. flags.remaining \in Seq(Tokens) /\ Append(flags.remaining, arg) \in Seq(Tokens)
    <3>1. flags.remaining \in Seq(Tokens)
      BY <1>1, Zenon DEF CommandTypeOK
    <3> QED
      BY <1>1, <3>1
  <2>2. /\ CommandTypeOK' /\ pos' = pos + 1 /\ flags'.error = "none" /\ flags'.on = flags.on
        /\ flags'.remaining = Append(flags.remaining, arg) /\ flags'.config = flags.config
    BY <1>1, <1>2, <1>15, <2>1, TakeOneField
  <2>3. arg \notin GlobalFlags \cup {"--"}
    BY <1>15 DEF GlobalFlags, Switches, Dashed, Words
  <2>4. /\ Plain(pos) = Plain(n) \cup {pos}
        /\ Cardinality(Plain(pos)) = Cardinality(Plain(n)) + 1
        /\ Cardinality(Plain(n)) \in Nat /\ IsFiniteSet(Plain(n))
    BY <1>1, <1>4, <2>3, PlainGrows
  <2>5. Right(pos) /\ ~IsPath(pos + 1) /\ ~Behind(pos + 1)
    <3>1. arg \in Dashed => Plain(n) # {}
      <4>1. arg \in Dashed => Len(flags.remaining) # 0
        BY <1>15, <2>1
      <4> QED
        BY <1>3, <4>1, FS_EmptySet DEF ReadBy, Remaining
    <3>2. arg # "-c" /\ arg # "--"
      BY <2>3 DEF GlobalFlags
    <3>3. ~LacksPath(pos) /\ ~IsUnknown(pos)
      BY <1>1, <1>4, <3>1, <3>2 DEF LacksPath, IsUnknown, arg, n
    <3> QED
      BY <1>1, <1>3, <1>4, <3>2, <3>3 DEF Right
  <2>6. \A flag \in GlobalFlags : ~IsFlag(pos, flag)
    BY <1>4, <2>3
  <2>7. Config(flags', pos)
    BY <1>1, <1>7, <2>2, <2>6 DEF GlobalFlags
  <2>8. On(flags', pos)
    BY <1>1, <1>8, <2>2, <2>6 DEF GlobalFlags
  <2>9. Remaining(flags', pos)
    <3>0. Remaining(flags, n) /\ Len(flags.remaining) = Cardinality(Plain(n))
      BY <1>3 DEF ReadBy, Remaining
    <3>1. ASSUME NEW i \in Plain(n)
          PROVE  flags'.remaining[Cardinality(Plain(i))] = args[i]
      <4>1. Cardinality(Plain(i)) \in 1..Len(flags.remaining)
        BY <1>1, <3>0, PlacesOfPlain
      <4>2. flags'.remaining[Cardinality(Plain(i))] = flags.remaining[Cardinality(Plain(i))]
        BY <2>1, <2>2, <4>1
      <4> QED
        BY <3>0, <4>2 DEF Remaining
    <3>2. flags'.remaining[Cardinality(Plain(pos))] = arg
      BY <2>1, <2>2, <2>4, <3>0
    <3>3. Len(flags'.remaining) = Cardinality(Plain(pos))
      BY <2>1, <2>2, <2>4, <3>0
    <3> QED
      BY <2>4, <3>1, <3>2, <3>3 DEF Remaining, arg
  <2> QED
    BY <1>1, <1>9, <2>2, <2>5, <2>7, <2>8, <2>9 DEF ReadBy
\* A "--".
<1>16. CASE arg = "--" /\ Take("remaining", flags.remaining \o rest, 1 + Len(rest))
  <2>1. flags.remaining \in Seq(Tokens) /\ flags.remaining \o rest \in Seq(Tokens)
    <3>1. flags.remaining \in Seq(Tokens)
      BY <1>1, Zenon DEF CommandTypeOK
    <3> QED
      BY <1>5, <3>1
  <2>2. /\ CommandTypeOK' /\ pos' = pos + (1 + Len(rest))
        /\ flags'.error = "none" /\ flags'.on = flags.on
        /\ flags'.remaining = flags.remaining \o rest /\ flags'.config = flags.config
    <3>1. 1 + Len(rest) \in Nat
      BY <1>1, <1>5
    <3> QED
      BY <1>1, <1>2, <1>16, <2>1, <3>1, TakeOneField
  <2>3. Parsed'
    BY <1>1, <1>2, <1>5, <2>2 DEF Parsed
  <2>4. ASSUME NEW i \in pos + 1..Len(args)
        PROVE  /\ Behind(i) /\ IsPlain(i) /\ ~LacksPath(i) /\ ~IsUnknown(i)
               /\ \A flag : ~IsFlag(i, flag)
    <3>1. Behind(i)
      BY <1>1, <1>3, <1>16 DEF Behind, arg
    <3> QED
      BY <3>1 DEF IsPlain, LacksPath, IsUnknown, IsFlag
  <2>5. /\ ~LacksPath(pos) /\ ~IsUnknown(pos) /\ ~IsPlain(pos)
        /\ \A flag \in GlobalFlags : ~IsFlag(pos, flag)
    BY <1>4, <1>16 DEF LacksPath, IsUnknown, Dashed, GlobalFlags, Switches, arg
  <2> PICK N \in Nat : N = Len(args)
    BY <1>1
  <2>6. Right(N)
    BY <1>1, <1>3, <2>4, <2>5 DEF Right
  <2>7. \A j \in pos..N : \A flag \in GlobalFlags : ~IsFlag(j, flag)
    BY <1>1, <2>4, <2>5
  <2>8. Config(flags', N)
    BY <1>1, <1>7, <2>2, <2>7 DEF GlobalFlags
  <2>9. On(flags', N)
    BY <1>1, <1>8, <2>2, <2>7 DEF GlobalFlags
  <2>10. ASSUME NEW i \in pos..N
         PROVE  /\ Plain(i) = Plain(n) \cup (pos + 1..i)
                /\ Cardinality(Plain(i)) = Cardinality(Plain(n)) + (i - pos)
    <3>1. Plain(i) = Plain(n) \cup (pos + 1..i)
      BY <1>1, <2>4, <2>5 DEF Plain, n
    <3>2. Plain(n) \cap (pos + 1..i) = {}
      BY <1>1 DEF Plain, n
    <3>3. /\ IsFiniteSet(Plain(n)) /\ Cardinality(Plain(n)) \in Nat
      BY <1>1, PlainGrows
    <3>4. /\ IsFiniteSet(pos + 1..i) /\ Cardinality(pos + 1..i) = i - pos
      <4>1. pos + 1 \in Int /\ i \in Int /\ pos <= i /\ pos \in Int
        BY <1>1
      <4>2. /\ IsFiniteSet(pos + 1..i)
            /\ Cardinality(pos + 1..i) = IF pos + 1 > i THEN 0 ELSE i - (pos + 1) + 1
        BY <4>1, FS_Interval
      <4> QED
        BY <4>1, <4>2
    <3>5. Cardinality(Plain(n) \cap (pos + 1..i)) = 0
      BY <3>2, FS_EmptySet
    <3>6. Cardinality(Plain(n) \cup (pos + 1..i))
            = Cardinality(Plain(n)) + Cardinality(pos + 1..i) - Cardinality(Plain(n) \cap (pos + 1..i))
      BY <3>3, <3>4, FS_Union
    <3> DEFINE both == Plain(n) \cup (pos + 1..i)
               size == Cardinality(Plain(n))
    <3>7. Cardinality(both) = size + (i - pos) - 0 /\ size \in Nat /\ i - pos \in Int
      BY <1>1, <3>3, <3>4, <3>5, <3>6
    <3> HIDE DEF both, size
    <3>8. Cardinality(both) = size + (i - pos)
      BY <3>7
    <3> QED
      BY <3>1, <3>8 DEF both, size
  <2>11. Remaining(flags', N)
    <3>1. Len(flags.remaining) = Cardinality(Plain(n)) /\ Cardinality(Plain(n)) \in Nat
      BY <1>1, <1>3, PlainGrows DEF ReadBy, Remaining
    <3>2. ASSUME NEW i \in Plain(n)
          PROVE  flags'.remaining[Cardinality(Plain(i))] = args[i]
      <4>1. Cardinality(Plain(i)) \in 1..Len(flags.remaining)
        BY <1>1, <3>1, PlacesOfPlain
      <4>2. flags'.remaining[Cardinality(Plain(i))] = flags.remaining[Cardinality(Plain(i))]
        BY <1>5, <2>1, <2>2, <4>1
      <4> QED
        BY <1>3, <4>2 DEF ReadBy, Remaining
    <3>3. ASSUME NEW i \in pos + 1..N
          PROVE  flags'.remaining[Cardinality(Plain(i))] = args[i]
      <4>1. i - pos \in 1..Len(rest) /\ rest[i - pos] = args[i]
        BY <1>1, <1>5
      <4>2. Cardinality(Plain(i)) = Len(flags.remaining) + (i - pos)
        BY <1>1, <2>10, <3>1
      <4> DEFINE k == i - pos
                 r == flags.remaining
      <4>3. k \in 1..Len(rest) /\ r \in Seq(Tokens) /\ rest \in Seq(Tokens)
        BY <1>5, <2>1, <4>1
      <4> HIDE DEF k, r
      <4>4. (r \o rest)[Len(r) + k] = rest[k]
        BY <4>3
      <4>5. flags'.remaining[Len(r) + k] = rest[k]
        BY <2>2, <4>4 DEF r
      <4>6. Cardinality(Plain(i)) = Len(r) + k /\ rest[k] = args[i]
        BY <4>1, <4>2, Zenon DEF k, r
      <4> QED
        BY <4>5, <4>6, Zenon
    <3>4. Len(flags'.remaining) = Cardinality(Plain(N))
      <4>1. N \in pos..N
        BY <1>1
      <4>2. Cardinality(Plain(N)) = Cardinality(Plain(n)) + (N - pos)
        BY <2>10, <4>1, Zenon
      <4>3. Len(flags.remaining \o rest) = Len(flags.remaining) + Len(rest)
        BY <1>5, <2>1
      <4> QED
        BY <1>5, <2>2, <3>1, <4>2, <4>3
    <3>5. Plain(N) = Plain(n) \cup (pos + 1..N)
      BY <1>1, <2>10
    <3>6. \A i \in Plain(N) : flags'.remaining[Cardinality(Plain(i))] = args[i]
      BY <3>2, <3>3, <3>5
    <3> QED
      BY <3>4, <3>6 DEF Remaining
  <2>12. Reads(N)'
    <3>1. ReadBy(flags', N)
      BY <2>8, <2>9, <2>11, Zenon DEF ReadBy
    <3> QED
      BY <1>6, <3>1
  <2>13. FlagsAnywhere'
    <3>1. N = Len(args')
      BY <1>2
    <3>2. \A i \in 1..N : ~LacksPath(i)' /\ ~IsUnknown(i)'
      BY <1>2, <2>6, SameArgs DEF Right
    <3> QED
      BY <2>2, <2>12, <3>1, <3>2 DEF FlagsAnywhere
  <2> QED
    BY <2>2, <2>3, <2>13, Zenon DEF ParseInv
<1> QED
  <2>1. \/ arg = "--" /\ Take("remaining", flags.remaining \o rest, 1 + Len(rest))
        \/ arg = "-c" /\ rest # <<>> /\ Take("config", Head(rest), 2)
        \/ arg = "-c" /\ rest = <<>> /\ Take("error", "noArgument", 0)
        \/ arg \in Switches /\ Take("on", flags.on \cup {arg}, 1)
        \/ arg \in Dashed /\ flags.remaining = <<>> /\ Take("error", "unknownFlag", 0)
        \/ /\ arg \in Words \/ (arg \in Dashed /\ flags.remaining # <<>>)
           /\ Take("remaining", Append(flags.remaining, arg), 1)
    BY Zenon DEF ParseArgument, rest, arg
  <2>2. Dashed \cap Words = {}
    BY DEF Dashed, Words
  <2> QED
    BY <1>11, <1>12, <1>13, <1>14, <1>15, <1>16, <2>1, <2>2

\* The loop's invariant holds before it, and once main is done with its result.
LEMMA ParseInvStart == CommandInit => ParseInv
<1> SUFFICES ASSUME args \in Seq(Tokens), pos = 1, flags = NoFlags PROVE ParseInv
  BY DEF CommandInit
<1>1. CommandTypeOK /\ flags.error = "none"
  <2> DEFINE empty == <<>>
             off == {}
             Configs == Tokens \cup {""}
             Ons == SUBSET Switches
             Rests == Seq(Tokens)
             Errors == {"none", "noArgument", "unknownFlag"}
  <2>1. empty \in Rests /\ off \in Ons /\ "" \in Configs /\ "none" \in Errors
    OBVIOUS
  <2>2. NoFlags = [config |-> "", on |-> off, remaining |-> empty, error |-> "none"]
    BY Zenon DEF NoFlags
  <2>3. NoFlags \in [config : Configs, on : Ons, remaining : Rests, error : Errors]
    <3> HIDE DEF empty, off, Configs, Ons, Rests, Errors
    <3> QED
      BY <2>1, <2>2
  <2>4. pos \in Nat \ {0}
    OBVIOUS
  <2>5. NoFlags.error = "none"
    BY DEF NoFlags
  <2> QED
    BY <2>3, <2>4, <2>5, Zenon DEF CommandTypeOK
<1>2. Plain(0) = {} /\ Cardinality(Plain(0)) = 0
  <2>1. Plain(0) = {}
    BY DEF Plain
  <2> QED
    BY <2>1, FS_EmptySet
<1>3. Reads(0)
  <2>1. flags.on = {} /\ flags.config = "" /\ flags.remaining = <<>>
    BY DEF NoFlags
  <2>2. ~\E i \in 1..0 : TRUE
    OBVIOUS
  <2>3. {flag \in Switches : \E i \in 1..0 : IsFlag(i, flag)} = {}
    BY <2>2, Zenon
  <2>4. Len(flags.remaining) = Cardinality(Plain(0))
    BY <1>2, <2>1
  <2>5. /\ \A i \in 1..0 :
             IsFlag(i, "-c") /\ (\A j \in i + 1..0 : ~IsFlag(j, "-c")) => flags.config = args[i + 1]
        /\ \A i \in Plain(0) : flags.remaining[Cardinality(Plain(i))] = args[i]
    BY <1>2, <2>2, Zenon
  <2> QED
    BY <2>1, <2>3, <2>4, <2>5, Zenon DEF Reads
<1>4. ReadSoFar(0)
  BY <1>3, PathsAlternate, BehindGrows DEF ReadSoFar
<1>5. Parsed => Len(args) = 0
  <2>1. Parsed => pos > Len(args)
    BY <1>1, Zenon DEF Parsed
  <2> QED
    BY <2>1
<1>6. FlagsAnywhere
  BY <1>1, <1>3, <1>5 DEF FlagsAnywhere
<1> QED
  BY <1>1, <1>4, <1>6 DEF ParseInv

\* Nothing that is said of the loop depends on other variables.
LEMMA SameCommand == ParseInv /\ UNCHANGED cmdvars => ParseInv'
<1> SUFFICES ASSUME ParseInv, args' = args, pos' = pos, flags' = flags PROVE ParseInv'
  BY DEF cmdvars
<1>1. CommandTypeOK'
  BY DEF ParseInv, CommandTypeOK
<1>2. Parsed' <=> Parsed
  BY DEF Parsed
<1>3. ASSUME NEW n PROVE Reads(n)' <=> Reads(n)
  BY SameArgs, Zenon DEF Reads
<1>4. ASSUME NEW n PROVE ReadSoFar(n)' <=> ReadSoFar(n)
  BY <1>3, SameArgs, Zenon DEF ReadSoFar
<1>5. ReadSoFar(pos - 1)' <=> ReadSoFar(pos - 1)
  BY <1>4
<1>6. FlagsAnywhere'
  BY <1>2, <1>3, SameArgs DEF ParseInv, FlagsAnywhere
<1> QED
  BY <1>1, <1>2, <1>5, <1>6, Zenon DEF ParseInv

\* The loop's invariant in a next state that is such a beginning.
LEMMA ParseInvRestart == CommandInit' => ParseInv'
  BY ParseInvStart, PTL

-----------------------------------------------------------------------------
(* The process *)

Operating == phase \in {"fetchSum", "fetchArtifact", "prepare", "poll", "undo"}

Timeout == IF opts.cmd = "deploy" THEN cfg.startup ELSE cfg.rollback

\* What a command has in hand at each phase.
CommandInv ==
  /\ FetchTypeOK
  /\ phase = "args" => opts.cmd = "none"
  /\ phase = "config" => opts.keep \in Int
  /\ phase = "dispatch" =>
       /\ opts.keep \in Int
       /\ cfg.services \in [DOMAIN cfg.services -> Entry]
  /\ Operating =>
       /\ cfg \in Entry
       /\ opts.cmd \in {"deploy", "rollback"}
  /\ phase \in {"fetchSum", "fetchArtifact"} => opts.cmd = "deploy"
  /\ phase = "fetchArtifact" => expected \in Nat
  /\ phase \in {"prepare", "poll", "undo"} /\ opts.cmd = "deploy" =>
       unpacked = expected /\ unpacked \in Nat
  /\ phase \in {"poll", "undo"} => deadline = 2 * Timeout
  /\ phase # "exited" => exit = Running

\* A map that loads is one of entries.
LEMMA LoadGivesEntries ==
  ASSUME NEW file \in Files, Load(file) # NoConfig
  PROVE  Load(file).services \in [DOMAIN Load(file).services -> Entry]
<1>1. file.kind = "map" /\ file.services \in [DOMAIN file.services -> Entry]
  BY ProcessAssumption DEF Load
<1>2. ASSUME NEW e \in Entry PROVE WithDefaults(e) \in Entry
  <2>1. \A n, default \in Int : OrDefault(n, default) \in Int
    BY DEF OrDefault
  <2>2. /\ DefaultKeepReleases \in Int
        /\ DefaultStartupTimeout \in Int
        /\ DefaultRollbackTimeout \in Int
    BY DEF DefaultKeepReleases, DefaultStartupTimeout, DefaultRollbackTimeout
  <2> QED
    BY <2>1, <2>2, Zenon DEF Entry, WithDefaults
<1>3. Load(file) = Map([name \in DOMAIN file.services |-> WithDefaults(file.services[name])])
  BY <1>1 DEF Load
<1> QED
  BY <1>1, <1>2, <1>3 DEF Map

\* A limit is a number, whatever comes behind --keep.
LEMMA KeepIsInt == ASSUME NEW cmdArgs PROVE Keep(cmdArgs) \in Int
<1>1. \A token : ParseInt(token) \in Int
  BY DEF ParseInt
<1> QED
  BY <1>1 DEF Keep

\* And the limit among the options is one.
LEMMA OptionsKeep == Options.keep \in Int
  BY KeepIsInt DEF Options

LEMMA CommandInvInit == ProcessInit => CommandInv /\ SuccessIsSound
<1> SUFFICES ASSUME ProcessInit PROVE CommandInv /\ SuccessIsSound
  OBVIOUS
<1>1. phase = "args" /\ exit = Running /\ opts.cmd = "none"
  BY DEF ProcessInit, NoOptions
<1>2. FetchTypeOK
  BY FetchAssumption DEF ProcessInit, FetchInit, FetchTypeOK
<1> QED
  BY <1>1, <1>2 DEF CommandInv, SuccessIsSound, Operating, Running

\* Every step of a process keeps CommandInv and what a success means.
LEMMA CommandInvStep ==
  CommandInv /\ SuccessIsSound /\ [ProcessNext]_procvars => (CommandInv /\ SuccessIsSound)'
<1> SUFFICES ASSUME CommandInv, SuccessIsSound, [ProcessNext]_procvars
             PROVE  CommandInv' /\ SuccessIsSound'
  OBVIOUS
<1> USE FetchAssumption
<1> USE DEF CommandInv, SuccessIsSound, FetchTypeOK, Operating, Running, Exit, Goto, fetchvars,
            healthvars, Timeout
<1>1. CASE UseArgs
  <2>1. /\ phase = "args" /\ exit = Running
        /\ UNCHANGED <<read, cfg, limit, fetchvars, healthvars>>
        /\ \/ phase' = "exited" /\ opts' = opts
           \/ phase' = "config" /\ exit' = exit /\ opts' = Options
    BY <1>1, Zenon DEF UseArgs
  <2>2. CASE phase' = "exited"
    BY <2>1, <2>2
  <2>3. CASE phase' = "config"
    <3>1. opts'.keep \in Int
      BY <2>1, <2>3, OptionsKeep
    <3> QED
      BY <2>1, <2>3, <3>1
  <2> QED
    BY <2>1, <2>2, <2>3
<1>2. ASSUME NEW file \in Files, LoadConfig(file)
      PROVE  CommandInv' /\ SuccessIsSound'
  BY <1>2, LoadGivesEntries DEF LoadConfig
<1>3. CASE DispatchNothing
  BY <1>3 DEF DispatchNothing
<1>4. ASSUME NEW cmd, NEW needs, Dispatch(cmd, needs)
      PROVE  /\ cfg' \in Entry /\ opts' = opts /\ opts.cmd = cmd /\ opts.keep \in Int
             /\ exit = Running /\ UNCHANGED <<fetchvars, healthvars>>
  BY <1>4 DEF Dispatch
<1>5. CASE RunStatus
  BY <1>4, <1>5 DEF RunStatus
<1>6. CASE RunPrune
  <2>1. limit' >= 1
    BY <1>4, <1>6 DEF RunPrune, Entry, Retention!ToKeep, Retention!DefaultKeepReleases
  <2> QED
    BY <1>4, <1>6, <2>1 DEF RunPrune
<1>7. CASE RunRollback
  BY <1>4, <1>7 DEF RunRollback
<1>8. CASE RunDeploy
  BY <1>4, <1>8 DEF RunDeploy
<1>9. ASSUME NEW here \in {"fetchSum", "fetchArtifact", "prepare", "undo"}, Fails(here)
      PROVE  CommandInv' /\ SuccessIsSound'
  BY <1>9 DEF Fails
<1>10. CASE FetchSum
  BY <1>10 DEF FetchSum, GetChecksum
<1>11. CASE FetchArtifact
  BY <1>11 DEF FetchArtifact, GetArtifact, Bodies
<1>12. CASE AwaitHealth
  BY <1>12 DEF AwaitHealth, PollBegin
<1>13. CASE Poll
  <2>1. UNCHANGED deadline
    BY <1>13 DEF Poll, PollStep, TimeOut, TakeTick, CheckPasses, CheckFails, Pass
  <2> QED
    BY <1>13, <2>1 DEF Poll, mainvars
<1>14. CASE Healthy
  BY <1>14 DEF Healthy
<1>15. CASE Unhealthy
  BY <1>15 DEF Unhealthy
<1>16. CASE Publish
  BY <1>16 DEF Publish, Republish, mainvars
<1>17. CASE UNCHANGED procvars
  BY <1>17 DEF procvars, mainvars
<1>18. CASE Parse
  BY <1>18, Zenon DEF Parse
<1> QED
  BY <1>1, <1>2, <1>3, <1>5, <1>6, <1>7, <1>8, <1>9, <1>10, <1>11, <1>12, <1>13, <1>14, <1>15,
     <1>16, <1>17, <1>18 DEF ProcessNext, ProcessStep

\* A process reads its arguments by that loop, and then no more of them.
LEMMA ProcessParses == ProcessSpec => []ParseInv
<1>1. ProcessInit => ParseInv
  BY ParseInvStart DEF ProcessInit
<1>2. ParseInv /\ [ProcessNext]_procvars => ParseInv'
  <2> SUFFICES ASSUME ParseInv, [ProcessNext]_procvars PROVE ParseInv'
    OBVIOUS
  <2>1. CASE Parse
    BY <2>1, ParseArgumentStep DEF Parse
  <2>2. CASE UseArgs
    <3>1. args' = <<>> /\ pos' = 1 /\ flags' = NoFlags
      BY <2>2, Zenon DEF UseArgs
    <3>2. args' \in Seq(Tokens)
      BY <3>1
    <3> QED
      BY <3>1, <3>2, ParseInvRestart DEF CommandInit
  <2>3. CASE UNCHANGED cmdvars
    BY <2>3, SameCommand
  <2> QED
    BY <2>1, <2>2, <2>3
    DEF ProcessNext, ProcessStep, procvars, mainvars, LoadConfig, DispatchNothing, Dispatch,
        RunStatus, RunPrune, RunRollback, RunDeploy, Fails, FetchSum, FetchArtifact, AwaitHealth,
        Poll, Healthy, Unhealthy, Publish
<1> QED
  BY <1>1, <1>2, PTL DEF ProcessSpec

\* Global flags are found before and behind the command, in any number and
\* order, a path is never taken for one, and the command and its arguments are
\* all the others, in their order: for any number of arguments.
THEOREM FlagsAnywhereHolds == ProcessSpec => []FlagsAnywhere
<1>1. ParseInv => FlagsAnywhere
  BY DEF ParseInv
<1> QED
  BY <1>1, ProcessParses, PTL

\* Exit status 0 of a deploy, a rollback or a prune means what a script takes
\* it for, for any arguments and any deploy map.
THEOREM SuccessIsSoundHolds == ProcessSpec => []SuccessIsSound
  BY CommandInvInit, CommandInvStep, PTL DEF ProcessSpec

\* A process polls as HealthSpec says, with its command's timeout.
LEMMA ProcessPolls == ProcessSpec => HealthSpec
<1>1. ProcessInit => HealthInit
  BY DEF ProcessInit
<1>2. CommandInv /\ [ProcessNext]_procvars => [HealthNext]_healthvars
  <2> SUFFICES ASSUME CommandInv, [ProcessNext]_procvars
               PROVE  [HealthNext]_healthvars
    OBVIOUS
  <2>1. CASE AwaitHealth
    BY <2>1 DEF AwaitHealth, Goto, CommandInv, Operating, Entry, HealthNext
  <2>2. CASE Poll
    BY <2>2 DEF Poll, HealthNext
  <2> QED
    BY <2>1, <2>2
    DEF ProcessNext, ProcessStep, procvars, Parse, UseArgs, LoadConfig, DispatchNothing, Dispatch,
        RunStatus, RunPrune, RunRollback, RunDeploy, Fails, FetchSum, FetchArtifact, Healthy,
        Unhealthy, Publish
<1> QED
  BY <1>1, <1>2, CommandInvInit, CommandInvStep, PTL DEF ProcessSpec, HealthSpec

\* The poll is over by its deadline (waitForHealth, Check and its context),
\* for any timeout in the deploy map.
THEOREM PollEndsInTimeHolds == ProcessSpec => []PollEndsInTime
<1>1. HealthInv => PollEndsInTime
  BY DEF HealthInv
<1> QED
  BY <1>1, ProcessPolls, PollIsSound, PTL

\* A command undoes its switch for no service that came up in time.
THEOREM NoFalseTimeoutHolds == ProcessSpec => []NoFalseTimeout
<1>1. HealthInv => NoFalseTimeout
  BY DEF HealthInv
<1> QED
  BY <1>1, ProcessPolls, PollIsSound, PTL

-----------------------------------------------------------------------------
(* The types of a process, and the deploy map it uses *)

\* How far a process has come with its paths, and that it polls where it says.
PhaseInv ==
  /\ read \in Seq(Files) /\ Len(read) + paths <= 2
  /\ paths \in 0..2
  /\ phase \in Phases
  /\ phase = "args" => read = <<>>
  /\ phase = "config" => paths > 0
  /\ limit \in Nat
  /\ exit \in {0, 1, 2, Running} /\ (exit = Running <=> phase # "exited")
  /\ phase = "poll" => poll # "off"
  /\ phase \notin {"poll", "undo", "exited"} => poll = "off"

\* The map in use is what the last file that was read loads as, and none of
\* the files before it loaded.
MapInv ==
  /\ phase = "config" => \A i \in 1..Len(read) : Load(read[i]) = NoConfig
  /\ phase = "dispatch" =>
       /\ read # <<>>
       /\ cfg = Load(read[Len(read)]) /\ cfg # NoConfig
       /\ \A i \in 1..Len(read) - 1 : Load(read[i]) = NoConfig

\* No file has been read before the first step.
LEMMA PhaseInvInit == ProcessInit => PhaseInv
<1> SUFFICES ASSUME ProcessInit PROVE PhaseInv
  OBVIOUS
<1>1. <<>> \in Seq(Files)
  OBVIOUS
<1> QED
  BY <1>1 DEF ProcessInit, HealthInit, PhaseInv, Phases, Running

\* Every step of a process keeps PhaseInv.
LEMMA PhaseInvStep ==
  CommandInv /\ PhaseInv /\ [ProcessNext]_procvars => PhaseInv'
<1> SUFFICES ASSUME CommandInv, PhaseInv, [ProcessNext]_procvars
             PROVE  PhaseInv'
  OBVIOUS
<1> USE DEF PhaseInv, Phases, Running, Exit, Goto, fetchvars, healthvars
<1>0. <<>> \in Seq(Files) /\ Len(<<>>) = 0
  OBVIOUS
<1>1. CASE UseArgs
  <2>1. /\ phase = "args"
        /\ UNCHANGED <<read, limit, poll>>
        /\ \/ phase' = "exited" /\ exit' \in {0, 1} /\ UNCHANGED paths
           \/ phase' = "config" /\ paths' \in {1, 2} /\ UNCHANGED exit
    BY <1>1, Zenon DEF UseArgs
  <2> QED
    BY <1>0, <2>1
<1>2. ASSUME NEW file \in Files, LoadConfig(file)
      PROVE  PhaseInv'
  BY <1>2 DEF LoadConfig
<1>3. CASE DispatchNothing
  BY <1>3 DEF DispatchNothing
<1>4. ASSUME NEW cmd, NEW needs, Dispatch(cmd, needs)
      PROVE  /\ phase = "dispatch" /\ exit = Running
             /\ read' \in Seq(Files) /\ Len(read') = 0
             /\ cfg' \in Entry /\ opts.keep \in Int
             /\ UNCHANGED <<paths, poll>>
  BY <1>0, <1>4 DEF Dispatch, CommandInv
<1>5. CASE RunStatus
  BY <1>4, <1>5 DEF RunStatus
<1>6. CASE RunPrune
  <2>1. limit' \in Nat
    BY <1>4, <1>6 DEF RunPrune, Entry, Retention!ToKeep, Retention!DefaultKeepReleases
  <2>2. Dispatch("prune", 1) /\ (Exit(0) \/ Exit(1))
    BY <1>6 DEF RunPrune
  <2> QED
    BY <1>4, <2>1, <2>2
<1>7. CASE RunRollback
  BY <1>4, <1>7 DEF RunRollback
<1>8. CASE RunDeploy
  BY <1>4, <1>8 DEF RunDeploy
<1>9. ASSUME NEW here \in {"fetchSum", "fetchArtifact", "prepare", "undo"}, Fails(here)
      PROVE  PhaseInv'
  BY <1>9 DEF Fails
<1>10. CASE FetchSum \/ FetchArtifact
  BY <1>10 DEF FetchSum, FetchArtifact
<1>11. CASE AwaitHealth
  BY <1>11 DEF AwaitHealth, PollBegin
<1>12. CASE Poll
  BY <1>12
  DEF Poll, PollStep, TimeOut, TakeTick, CheckPasses, CheckFails, Pass, Idle, mainvars
<1>13. CASE Healthy \/ Unhealthy
  BY <1>13 DEF Healthy, Unhealthy
<1>14. CASE Publish
  BY <1>14 DEF Publish, mainvars
<1>15. CASE UNCHANGED procvars
  BY <1>15 DEF procvars, mainvars
<1>16. CASE Parse
  BY <1>16, Zenon DEF Parse
<1> QED
  BY <1>1, <1>2, <1>3, <1>5, <1>6, <1>7, <1>8, <1>9, <1>10, <1>11, <1>12, <1>13, <1>14, <1>15,
     <1>16
  DEF ProcessNext, ProcessStep

\* Every step of a process keeps MapInv.
LEMMA MapInvStep ==
  PhaseInv /\ MapInv /\ [ProcessNext]_procvars => MapInv'
<1> SUFFICES ASSUME PhaseInv, MapInv, [ProcessNext]_procvars
             PROVE  MapInv'
  OBVIOUS
<1>1. ASSUME NEW file \in Files, LoadConfig(file)
      PROVE  MapInv'
  <2>1. /\ phase = "config" /\ read \in Seq(Files)
        /\ read' = Append(read, file) /\ cfg' = Load(file)
        /\ phase' = "dispatch" => cfg' # NoConfig
        /\ phase' = "config" => cfg' = NoConfig
    BY <1>1 DEF LoadConfig, Exit, PhaseInv
  <2>2. /\ Len(read') = Len(read) + 1 /\ Len(read) \in Nat
        /\ read'[Len(read')] = file
        /\ \A i \in 1..Len(read) : read'[i] = read[i]
    BY <2>1
  <2>3. read' # <<>>
    BY <2>1
  <2> QED
    BY <2>1, <2>2, <2>3 DEF MapInv
<1>2. CASE Parse \/ UseArgs
  <2>1. phase' # "dispatch" /\ read' = <<>>
    BY <1>2, Zenon DEF Parse, UseArgs, PhaseInv, Exit
  <2> QED
    BY <2>1 DEF MapInv
<1>3. CASE UNCHANGED procvars
  BY <1>3 DEF procvars, mainvars, MapInv
<1>4. CASE phase' \notin {"config", "dispatch"}
  BY <1>4 DEF MapInv
<1> QED
  BY <1>1, <1>2, <1>3, <1>4
  DEF ProcessNext, ProcessStep, DispatchNothing, Dispatch, RunStatus, RunPrune, RunRollback,
      RunDeploy, Fails, FetchSum, FetchArtifact, AwaitHealth, Poll, Healthy, Unhealthy, Publish,
      Exit, Goto, mainvars

\* The types of a process, which never reads more than two files, and polls
\* only where it says so.
THEOREM ProcessTypesHold == ProcessSpec => []ProcessTypeOK
<1>1. ParseInv /\ CommandInv /\ PhaseInv /\ HealthInv => ProcessTypeOK
  BY DEF ParseInv, CommandInv, PhaseInv, HealthInv, HealthTypeOK, ProcessTypeOK, Phases
<1> QED
  BY <1>1, ProcessParses, CommandInvInit, CommandInvStep, PhaseInvInit, PhaseInvStep, ProcessPolls,
     PollIsSound, PTL
  DEF ProcessSpec

\* What a map that loads says of a service, and where its numbers come from.
LEMMA LoadIsUsable ==
  ASSUME NEW file \in Files, Load(file) # NoConfig
  PROVE  /\ Load(file).services # <<>>
         /\ \A name \in DOMAIN Load(file).services :
              LET e == Load(file).services[name]
                  f == file.services[name]
              IN  /\ e.complete
                  /\ 0 \notin {e.startup, e.rollback, e.keep}
                  /\ \A field \in {"startup", "rollback", "keep"} :
                       f[field] # 0 => e[field] = f[field]
<1>1. /\ file.services \in [DOMAIN file.services -> Entry]
      /\ DOMAIN file.services # {}
      /\ \A name \in DOMAIN file.services : file.services[name].complete
  BY ProcessAssumption DEF Load, Validate
<1>2. Load(file).services =
        [name \in DOMAIN file.services |-> WithDefaults(file.services[name])]
  BY DEF Load, Map
<1>3. Load(file).services # <<>>
  <2>1. DOMAIN <<>> = {}
    OBVIOUS
  <2> QED
    BY <1>1, <1>2, <2>1
<1>4. ASSUME NEW f \in Entry, f.complete
      PROVE  LET e == WithDefaults(f)
             IN  /\ e.complete
                 /\ 0 \notin {e.startup, e.rollback, e.keep}
                 /\ \A field \in {"startup", "rollback", "keep"} :
                      f[field] # 0 => e[field] = f[field]
  BY <1>4
  DEF Entry, WithDefaults, OrDefault, DefaultKeepReleases, DefaultStartupTimeout,
      DefaultRollbackTimeout
<1> QED
  BY <1>1, <1>2, <1>3, <1>4

\* A map is passed over only when it has no service, or an entry that lacks a
\* field.
LEMMA OnlyBadMapsFail ==
  ASSUME NEW file \in Files, Load(file) = NoConfig, file.kind = "map"
  PROVE  \/ file.services = <<>>
         \/ \E name \in DOMAIN file.services : ~file.services[name].complete
<1>1. file.services \in [DOMAIN file.services -> Entry]
  BY ProcessAssumption
<1>2. ~Validate(file.services)
  BY DEF Load, Map, NoConfig
<1>3. DOMAIN file.services = {} => file.services = <<>>
  BY <1>1
<1> QED
  BY <1>2, <1>3 DEF Validate

\* No operation runs with an incomplete entry or with a zero that stands for
\* "not given", whatever files are found where the deploy map is looked for
\* and however they are replaced between two reads; and one that loads is
\* never passed over.
THEOREM ConfigIsUsableHolds == ProcessSpec => []ConfigIsUsable
<1>1. ProcessInit => MapInv
  BY DEF ProcessInit, MapInv
<1>2. PhaseInv /\ MapInv => ConfigIsUsable
  <2> SUFFICES ASSUME PhaseInv, MapInv, phase = "dispatch"
               PROVE  ConfigIsUsable
    BY DEF ConfigIsUsable
  <2>1. /\ read \in Seq(Files) /\ read # <<>>
        /\ cfg = Load(read[Len(read)]) /\ cfg # NoConfig
        /\ \A i \in 1..Len(read) - 1 : Load(read[i]) = NoConfig
    BY DEF PhaseInv, MapInv
  <2>2. read[Len(read)] \in Files /\ \A i \in 1..Len(read) - 1 : read[i] \in Files
    BY <2>1
  <2> QED
    BY <2>1, <2>2, LoadIsUsable, OnlyBadMapsFail DEF ConfigIsUsable
<1> QED
  BY <1>1, <1>2, CommandInvInit, CommandInvStep, PhaseInvInit, PhaseInvStep, MapInvStep, PTL
  DEF ProcessSpec

-----------------------------------------------------------------------------
(* Every step brings the end nearer *)

\* A step of the poll uses one of those that it has left.
LEMMA PollStepsRunOut ==
  ASSUME HealthTypeOK, PollStep
  PROVE  PollLeft \in Nat /\ PollLeft' \in Nat /\ PollLeft' < PollLeft
<1> USE DEF HealthTypeOK, Polling, Expired, PollLeft
<1>1. CASE TimeOut
  BY <1>1 DEF TimeOut
<1>2. CASE TakeTick
  BY <1>2 DEF TakeTick
<1>3. CASE CheckPasses
  BY <1>3 DEF CheckPasses
<1>4. CASE CheckFails
  BY <1>4 DEF CheckFails
<1>5. CASE Pass
  BY <1>5 DEF Pass, Idle, GivenUp
<1> QED
  BY <1>1, <1>2, <1>3, <1>4, <1>5 DEF PollStep

\* An iteration of the loop over the arguments comes nearer to their end, or
\* ends the loop.
LEMMA ArgumentsRunOut ==
  ASSUME ParseInv, ParseArgument
  PROVE  (IF Parsed THEN 0 ELSE Len(args) + 1 - pos)'
           < (IF Parsed THEN 0 ELSE Len(args) + 1 - pos)
<1>1. CommandTypeOK /\ CommandTypeOK' /\ ~Parsed /\ args' = args
  BY ParseArgumentStep, Zenon DEF ParseInv, ParseArgument
<1>2. /\ pos \in Nat /\ pos' \in Nat /\ Len(args) \in Nat
      /\ pos <= Len(args)
      /\ ~Parsed' => pos' <= Len(args)
  <2>1. /\ args \in Seq(Tokens) /\ pos \in Nat \ {0} /\ pos' \in Nat \ {0}
        /\ ~(pos > Len(args)) /\ (~Parsed' => ~(pos' > Len(args')))
    BY <1>1, Zenon DEF CommandTypeOK, Parsed
  <2> QED
    BY <1>1, <2>1
<1>3. CASE flags'.error # "none"
  <2>1. Parsed'
    BY <1>3 DEF Parsed
  <2> QED
    BY <1>1, <1>2, <2>1
<1>4. CASE \E field, value, n : n > 0 /\ n \in Nat /\ Take(field, value, n)
  <2>1. pos' > pos
    BY <1>2, <1>4 DEF Take
  <2> QED
    BY <1>1, <1>2, <2>1
<1>5. Len(SubSeq(args, pos + 1, Len(args))) \in Nat
  <2>1. args \in Seq(Tokens)
    BY <1>1, Zenon DEF CommandTypeOK
  <2> QED
    BY <1>2, <2>1
<1>6. \/ \E field, value, n : n > 0 /\ n \in Nat /\ Take(field, value, n)
      \/ Take("error", "noArgument", 0) \/ Take("error", "unknownFlag", 0)
  <2> DEFINE rest == SubSeq(args, pos + 1, Len(args))
  <2>1. 1 + Len(rest) \in Nat /\ 1 + Len(rest) > 0 /\ 1 \in Nat /\ 1 > 0 /\ 2 \in Nat /\ 2 > 0
    <3>1. Len(rest) \in Nat
      BY <1>5
    <3> HIDE DEF rest
    <3> QED
      BY <3>1
  <2>2. \/ Take("remaining", flags.remaining \o rest, 1 + Len(rest))
        \/ Take("config", Head(rest), 2)
        \/ Take("on", flags.on \cup {args[pos]}, 1)
        \/ Take("remaining", Append(flags.remaining, args[pos]), 1)
        \/ Take("error", "noArgument", 0) \/ Take("error", "unknownFlag", 0)
    BY Zenon DEF ParseArgument
  <2> HIDE DEF rest
  <2> QED
    BY <2>1, <2>2, Zenon
<1>7. ASSUME NEW error \in {"noArgument", "unknownFlag"}, Take("error", error, 0)
      PROVE  flags'.error # "none"
  BY <1>1, <1>7, TakeOneField
<1> QED
  BY <1>3, <1>4, <1>6, <1>7

\* Every step of a process brings its end nearer, for any arguments, timeouts
\* and answers: no busy loop, no endless retry, no way back.
THEOREM ProcessAdvancesHolds == ProcessSpec => ProcessAdvances
<1> DEFINE Later == PhasesLeft[phase'] < PhasesLeft[phase]
           Nearer == phase' = phase /\ StepsInPhase' < StepsInPhase
<1>1. /\ PhasesLeft["args"] = 8 /\ PhasesLeft["config"] = 7 /\ PhasesLeft["dispatch"] = 6
      /\ PhasesLeft["fetchSum"] = 5 /\ PhasesLeft["fetchArtifact"] = 4
      /\ PhasesLeft["prepare"] = 3 /\ PhasesLeft["poll"] = 2 /\ PhasesLeft["undo"] = 1
      /\ PhasesLeft["exited"] = 0
  BY DEF PhasesLeft
<1>2. ParseInv /\ PhaseInv /\ HealthInv /\ ProcessStep => Later \/ Nearer
  <2> SUFFICES ASSUME ParseInv, PhaseInv, HealthInv, ProcessStep PROVE Later \/ Nearer
    OBVIOUS
  <2>1. CASE Parse
    <3>1. phase = "args" /\ phase' = "args" /\ ParseArgument
      BY <2>1, Zenon DEF Parse
    <3> QED
      BY <3>1, ArgumentsRunOut DEF StepsInPhase
  <2>2. CASE UseArgs
    <3>1. phase = "args" /\ phase' \in {"exited", "config"}
      BY <2>2, Zenon DEF UseArgs, Exit
    <3> QED
      BY <1>1, <3>1
  <2>3. ASSUME NEW file \in Files, LoadConfig(file) PROVE Later \/ Nearer
    <3>1. /\ phase = "config" /\ phase' \in {"dispatch", "config", "exited"}
          /\ paths \in 0..2 /\ paths' = paths - 1
      BY <2>3 DEF LoadConfig, Exit, PhaseInv
    <3> QED
      BY <1>1, <3>1 DEF StepsInPhase
  <2>4. CASE DispatchNothing \/ RunStatus \/ RunPrune \/ RunRollback \/ RunDeploy
    BY <1>1, <2>4
    DEF DispatchNothing, Dispatch, RunStatus, RunPrune, RunRollback, RunDeploy, Exit
  <2>5. ASSUME NEW here \in {"fetchSum", "fetchArtifact", "prepare", "undo"}, Fails(here)
        PROVE  Later
    BY <1>1, <2>5 DEF Fails, Exit
  <2>6. CASE FetchSum \/ FetchArtifact \/ AwaitHealth
    BY <1>1, <2>6 DEF FetchSum, FetchArtifact, AwaitHealth, Goto
  <2>7. CASE Poll
    <3>1. phase = "poll" /\ phase' = "poll" /\ PollStep
      BY <2>7 DEF Poll, mainvars
    <3> QED
      BY <3>1, PollStepsRunOut DEF StepsInPhase, HealthInv
  <2>8. CASE Healthy \/ Unhealthy
    BY <1>1, <2>8 DEF Healthy, Unhealthy, Exit, Goto
  <2> QED
    BY <2>1, <2>2, <2>3, <2>4, <2>5, <2>6, <2>7, <2>8 DEF ProcessStep
<1>3. Publish => phase' = phase /\ StepsInPhase' = StepsInPhase
  BY DEF Publish, mainvars, StepsInPhase
<1>4. ParseInv /\ PhaseInv /\ HealthInv /\ [ProcessNext]_procvars =>
        [\/ PhasesLeft[phase'] < PhasesLeft[phase]
         \/ phase' = phase /\ StepsInPhase' < StepsInPhase
         \/ ~ProcessStep /\ phase' = phase /\ StepsInPhase' = StepsInPhase]_procvars
  BY <1>2, <1>3, Zenon DEF ProcessNext
<1> QED
  BY <1>4, ProcessParses, CommandInvInit, CommandInvStep, PhaseInvInit, PhaseInvStep,
     ProcessPolls, PollIsSound, PTL
  DEF ProcessSpec, ProcessAdvances
=============================================================================
