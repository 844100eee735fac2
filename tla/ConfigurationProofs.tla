------------------------ MODULE ConfigurationProofs ------------------------
(***************************************************************************)
(* Machine-checked proofs about Configuration, for any options and lines   *)
(* and any number of them.                                                 *)
(***************************************************************************)
EXTENDS Configuration, TLAPS, SequenceTheorems

-----------------------------------------------------------------------------
(* The last word *)

\* One more item that does not count changes nothing.
LEMMA WordIgnored ==
  ASSUME NEW S, NEW items \in Seq(S), NEW x \in S, NEW v, NEW default,
         NEW which \in SUBSET (1 .. Len(items)), LastWord(v, items, which, default)
  PROVE  LastWord(v, Append(items, x), which, default)
<1>1. \A k \in which : Append(items, x)[k] = items[k]
  BY AppendProperties
<1> QED
  BY <1>1 DEF LastWord

\* One that does has the last word.
LEMMA WordHeard ==
  ASSUME NEW S, NEW items \in Seq(S), NEW x \in S, NEW default,
         NEW which \in SUBSET (1 .. Len(items))
  PROVE  LastWord(x.val, Append(items, x), which \cup {Len(items) + 1}, default)
<1>1. Append(items, x)[Len(items) + 1] = x /\ Len(items) \in Nat
  BY AppendProperties
<1>2. \A j \in which \cup {Len(items) + 1} : j <= Len(items) + 1
  BY <1>1
<1> QED
  BY <1>1, <1>2 DEF LastWord

Counted(a, o) == a.key = o /\ a.val # "bad"
Read(l, o) == l.key = o /\ l.val # "bad" /\ o \notin OnlyAsArg /\ ~StopsReading(l)

LEMMA ArgsOfAppend ==
  ASSUME NEW a \in Args, args \in Seq(Args), args' = Append(args, a), NEW o
  PROVE  /\ ArgsOf(o) \in SUBSET (1 .. Len(args))
         /\ ArgsOf(o)' = IF Counted(a, o) THEN ArgsOf(o) \cup {Len(args) + 1} ELSE ArgsOf(o)
<1>1. /\ Len(args) \in Nat /\ DOMAIN args = 1 .. Len(args)
      /\ DOMAIN args' = 1 .. Len(args) + 1 /\ args'[Len(args) + 1] = a
      /\ \A k \in 1 .. Len(args) : args'[k] = args[k]
  BY AppendProperties, LenProperties
<1>2. 1 .. Len(args) + 1 = (1 .. Len(args)) \cup {Len(args) + 1}
  BY <1>1
<1> QED
  BY <1>1, <1>2 DEF ArgsOf, Counted

LEMMA LinesOfAppend ==
  ASSUME NEW l \in Lines, lines \in Seq(Lines), lines' = Append(lines, l), NEW o
  PROVE  /\ LinesOf(o) \in SUBSET (1 .. Len(lines))
         /\ LinesOf(o)' = IF Read(l, o) THEN LinesOf(o) \cup {Len(lines) + 1} ELSE LinesOf(o)
<1>1. /\ Len(lines) \in Nat /\ DOMAIN lines = 1 .. Len(lines)
      /\ DOMAIN lines' = 1 .. Len(lines) + 1 /\ lines'[Len(lines) + 1] = l
      /\ \A k \in 1 .. Len(lines) : lines'[k] = lines[k]
  BY AppendProperties, LenProperties
<1>2. 1 .. Len(lines) + 1 = (1 .. Len(lines)) \cup {Len(lines) + 1}
  BY <1>1
<1> QED
  BY <1>1, <1>2 DEF LinesOf, Read, StopsReading

-----------------------------------------------------------------------------
(* Types *)

LEMMA ItemType ==
  ASSUME NEW x \in Item
  PROVE  /\ x.key \in Key /\ x.val \in Value \ {"unset"}
         /\ x.val = "bad" => x.key \in Parsed
BY DEF Item

LEMMA KeptType ==
  ASSUME NEW o, NEW v \in Value \ {"bad"}
  PROVE  Meant(o, v) \in Value \ {"bad"} /\ Kept(o, v) \in Value \ {"bad"}
BY DEF Meant, Kept, Value

LEMMA TypeStep ==
  ASSUME TypeOK, Next PROVE TypeOK'
<1> USE ConfigurationAssumption DEF TypeOK
<1>1. ASSUME NEW a \in Args, \/ SwitchArg(a) \/ NumberArg(a) \/ SamlArg(a) \/ TlsArg(a)
                              \/ TextArg(a) \/ HostArg(a)
      PROVE TypeOK'
  <2>0. Append(args, a) \in Seq(Args)
    BY AppendProperties
  <2>1. args' \in Seq(Args) /\ UNCHANGED <<pc, lines, cfg, cliCerts, certs, lost, engine>>
    <3>1. SetCli(a) \/ ArgIgnored(a)
      BY <1>1, Zenon DEF SwitchArg, NumberArg, SamlArg, TlsArg, TextArg, HostArg
    <3> QED
      BY <2>0, <3>1, Zenon DEF SetCli, ArgIgnored, Give
  <2>2. cli' = cli \/ /\ a.val # "bad" /\ cli' = [cli EXCEPT ![a.key] = Kept(a.key, a.val)]
    BY <1>1, ItemType DEF SwitchArg, NumberArg, SamlArg, TlsArg, TextArg, HostArg, SetCli,
       ArgIgnored, Parsed, Arrays, Strings, Secrets, OnlyAsArg, Switches, Numbers
  <2>4. a.val # "bad" => Kept(a.key, a.val) \in Value \ {"bad"}
    <3>1. a.val \in Value
      BY ItemType
    <3> QED
      BY <3>1, KeptType
  <2>3. cli' \in [Option -> Value \ {"bad"}]
    BY <2>2, <2>4
  <2> QED
    BY <2>1, <2>3
<1>2. ASSUME NEW a \in Args, CertArg(a) \/ BadArg(a) PROVE TypeOK'
  <2>1. Append(args, a) \in Seq(Args)
    BY AppendProperties
  <2>2. a.val \in Value
    BY ItemType
  <2>3. Append(cliCerts, a.val) \in Seq(Value)
    BY <2>2, AppendProperties
  <2>4. /\ args' \in Seq(Args) /\ cliCerts' \in Seq(Value) /\ pc' \in {pc, "usage"}
        /\ lost' = lost \/ lost' = lost \cup {<<"arg", Len(args) + 1>>}
        /\ UNCHANGED <<lines, cli, cfg, certs, engine>>
    BY <1>2, <2>1, <2>3 DEF CertArg, BadArg, Give
  <2>5. Len(args) + 1 \in Nat
    BY LenProperties
  <2> QED
    BY <2>4, <2>5
<1>3. ASSUME NEW l \in Lines, ParsedLine(l) \/ TextLine(l) \/ SamlLine(l) PROVE TypeOK'
  <2>0. Append(lines, l) \in Seq(Lines)
    BY AppendProperties
  <2>1. lines' \in Seq(Lines) /\ UNCHANGED <<pc, args, cli, cliCerts, certs, lost>>
    <3>1. SetCfg(l) \/ LineIgnored(l)
      BY <1>3, Zenon DEF ParsedLine, TextLine, SamlLine
    <3> QED
      BY <2>0, <3>1, Zenon DEF SetCfg, LineIgnored, ReadLine
  <2>2. \/ cfg' = cfg
        \/ l.val # "bad" /\ cfg' = [cfg EXCEPT ![l.key] = Meant(l.key, l.val)]
    BY <1>3, ItemType DEF ParsedLine, TextLine, SamlLine, SetCfg, LineIgnored, StopsReading,
       Parsed, Arrays, Strings, Secrets, OnlyInFile, Switches, Numbers
  <2>5. l.val # "bad" => Meant(l.key, l.val) \in Value \ {"bad"}
    <3>1. l.val \in Value
      BY ItemType
    <3> QED
      BY <3>1, KeptType
  <2>3. cfg' \in [Option -> Value \ {"bad"}]
    BY <2>2, <2>5
  <2>4. engine' \in BOOLEAN
    BY <1>3, Zenon DEF ParsedLine, TextLine, SamlLine
  <2> QED
    BY <2>1, <2>3, <2>4
<1>4. ASSUME NEW l \in Lines, CertLine(l) \/ NoLine(l) \/ BadLine(l) PROVE TypeOK'
  <2>1. Append(lines, l) \in Seq(Lines)
    BY AppendProperties
  <2>2. l.val \in Value
    BY ItemType
  <2>3. Append(certs, l.val) \in Seq(Value)
    BY <2>2, AppendProperties
  <2>4. /\ lines' \in Seq(Lines) /\ certs' \in {certs, Append(certs, l.val)}
        /\ lost' = lost \/ lost' = lost \cup {<<"line", Len(lines) + 1>>}
        /\ pc' \in {pc, "merge"} /\ UNCHANGED <<args, cli, cfg, cliCerts, engine>>
    BY <1>4, <2>1 DEF CertLine, NoLine, BadLine, LineIgnored, ReadLine
  <2>5. <<"line", Len(lines) + 1>> \in {"arg", "line"} \X Nat
    BY LenProperties
  <2>6. certs' \in Seq(Value) /\ lost' \subseteq {"arg", "line"} \X Nat
    BY <2>3, <2>4, <2>5
  <2> QED
    BY <2>4, <2>6
<1>5. CASE EndOfArgs \/ EndOfFile \/ ReadHost \/ Check
  BY <1>5 DEF EndOfArgs, EndOfFile, ReadHost, Check
<1>6. CASE Merge
  <2>1. engine' \in BOOLEAN
    BY <1>6, Zenon DEF Merge
  <2> QED
    BY <1>6, <2>1 DEF Merge
<1> QED
  BY <1>1, <1>2, <1>3, <1>4, <1>5, <1>6 DEF Next

-----------------------------------------------------------------------------
(* The configuration so far *)

\* cli has the last word of the command line on every option, as it is kept.
CliInv ==
  pc # "usage" => \A o \in Option : \E v \in Value :
    LastWord(v, args, ArgsOf(o), "unset") /\ cli[o] = Kept(o, v)

\* cfg has the last word of the lines that were read, or the default.
CfgInv ==
  /\ pc = "options" => lines = <<>> /\ cfg = Default
  /\ pc \in {"options", "file", "merge"} => \A o \in Option : \E v \in Value :
       LastWord(v, lines, LinesOf(o), Default[o]) /\ cfg[o] = Meant(o, v)

EngineInv ==
  pc # "usage" /\ cfg["user-cert"] = "pkcs11" => engine

LEMMA CliInvStep ==
  ASSUME TypeOK, CliInv, Next PROVE CliInv'
<1> SUFFICES ASSUME pc' # "usage", NEW o \in Option
             PROVE  \E v \in Value :
                      LastWord(v, args', ArgsOf(o)', "unset") /\ cli'[o] = Kept(o, v)
  BY DEF CliInv, LastWord, Kept, Meant
<1> USE DEF TypeOK
<1>1. ASSUME NEW a \in Args, SwitchArg(a) \/ NumberArg(a) \/ SamlArg(a) \/ TlsArg(a)
                              \/ TextArg(a) \/ CertArg(a) \/ HostArg(a)
      PROVE  \E v \in Value : LastWord(v, args', ArgsOf(o)', "unset") /\ cli'[o] = Kept(o, v)
  <2>1. args' = Append(args, a) /\ pc = "options"
    BY <1>1, Zenon DEF SwitchArg, NumberArg, SamlArg, TlsArg, TextArg, CertArg, HostArg,
                       SetCli, ArgIgnored, Give
  <2>2. PICK v \in Value : LastWord(v, args, ArgsOf(o), "unset") /\ cli[o] = Kept(o, v)
    BY <2>1 DEF CliInv
  <2>3. a \in Item
    BY ConfigurationAssumption
  <2>4. CASE Counted(a, o)
    <3>1. cli' = [cli EXCEPT ![a.key] = Kept(a.key, a.val)]
      BY <1>1, <2>4 DEF Counted, SwitchArg, NumberArg, SamlArg, TlsArg, TextArg, CertArg,
           HostArg, SetCli, Option, Switches, Numbers, Arrays, Strings, Secrets, OnlyInFile,
           OnlyAsArg, Gateway
    <3>2. cli'[o] = Kept(o, a.val)
      BY <2>4, <3>1 DEF Counted
    <3>3. LastWord(a.val, args', ArgsOf(o)', "unset")
      <4>1. /\ ArgsOf(o) \in SUBSET (1 .. Len(args))
            /\ ArgsOf(o)' = ArgsOf(o) \cup {Len(args) + 1}
        BY <2>1, <2>4, ArgsOfAppend
      <4>2. LastWord(a.val, Append(args, a), ArgsOf(o) \cup {Len(args) + 1}, "unset")
        BY <4>1, WordHeard
      <4> QED
        BY <2>1, <4>1, <4>2
    <3>4. a.val \in Value
      BY <2>3, ItemType
    <3> QED
      BY <3>2, <3>3, <3>4
  <2>5. CASE ~Counted(a, o)
    <3>1. cli'[o] = cli[o]
      <4>1. CASE cli' = cli
        BY <4>1
      <4>2. CASE cli' = [cli EXCEPT ![a.key] = Kept(a.key, a.val)] /\ a.val # "bad"
        BY <2>5, <4>2 DEF Counted
      <4> QED
        BY <1>1, <2>3, <4>1, <4>2, ItemType
        DEF SwitchArg, NumberArg, SamlArg, TlsArg, TextArg, CertArg, HostArg, SetCli,
            ArgIgnored, Parsed, Switches, Numbers, Arrays, Strings, Secrets, OnlyAsArg
    <3>2. LastWord(v, args', ArgsOf(o)', "unset")
      BY <2>1, <2>2, <2>5, ArgsOfAppend, WordIgnored
    <3> QED
      BY <2>2, <3>1, <3>2
  <2> QED
    BY <2>4, <2>5
<1>2. CASE UNCHANGED <<args, cli>> /\ pc # "usage"
  <2>1. ArgsOf(o)' = ArgsOf(o)
    BY <1>2 DEF ArgsOf
  <2> QED
    BY <1>2, <2>1 DEF CliInv
<1>3. ASSUME NEW a \in Args, BadArg(a) PROVE FALSE
  BY <1>3 DEF BadArg
<1>4. ASSUME NEW l \in Lines, ParsedLine(l) \/ TextLine(l) \/ CertLine(l) \/ NoLine(l)
                              \/ BadLine(l) \/ SamlLine(l)
      PROVE UNCHANGED <<args, cli>> /\ pc = "file"
  BY <1>4 DEF ParsedLine, TextLine, CertLine, NoLine, BadLine, SamlLine, SetCfg, LineIgnored,
              ReadLine
<1>5. ASSUME EndOfArgs \/ EndOfFile \/ Merge \/ ReadHost \/ Check
      PROVE  UNCHANGED <<args, cli>> /\ pc # "usage"
  BY <1>5 DEF EndOfArgs, EndOfFile, Merge, ReadHost, Check
<1> QED
  BY <1>1, <1>2, <1>3, <1>4, <1>5 DEF Next

\* Where there is no line yet, the default has the last word.
LEMMA DefaultWord ==
  ASSUME lines = <<>>, NEW o \in Option
  PROVE  /\ LastWord(Default[o], lines, LinesOf(o), Default[o])
         /\ Default[o] \in Value /\ Meant(o, Default[o]) = Default[o]
<1>1. LastWord(Default[o], lines, LinesOf(o), Default[o])
  BY DEF LastWord, LinesOf
<1>2. Default[o] \in Value /\ Meant(o, Default[o]) = Default[o]
  BY DEF Default, Value, Meant, Arrays, Numbers, Switches
<1> QED
  BY <1>1, <1>2

LEMMA CfgInvStep ==
  ASSUME TypeOK, CfgInv, Next PROVE CfgInv'
<1> USE DEF TypeOK
<1>0. pc' = "options" => lines' = <<>> /\ cfg' = Default
  BY DEF CfgInv, Next, SwitchArg, NumberArg, SamlArg, TlsArg, TextArg, CertArg, HostArg, BadArg,
         SetCli, ArgIgnored, Give, EndOfArgs, ParsedLine, TextLine, CertLine, NoLine, BadLine,
         SamlLine, SetCfg, LineIgnored, ReadLine, EndOfFile, Merge, ReadHost, Check
<1> SUFFICES ASSUME pc' \in {"options", "file", "merge"}, NEW o \in Option
             PROVE  \E v \in Value :
                      LastWord(v, lines', LinesOf(o)', Default[o]) /\ cfg'[o] = Meant(o, v)
  BY <1>0 DEF CfgInv, LastWord, Meant, Default
<1>1. ASSUME NEW l \in Lines, ParsedLine(l) \/ TextLine(l) \/ CertLine(l) \/ NoLine(l)
                              \/ BadLine(l) \/ SamlLine(l)
      PROVE  \E v \in Value :
               LastWord(v, lines', LinesOf(o)', Default[o]) /\ cfg'[o] = Meant(o, v)
  <2>1. lines' = Append(lines, l) /\ pc = "file"
    BY <1>1, Zenon DEF ParsedLine, TextLine, CertLine, NoLine, BadLine, SamlLine, SetCfg,
                       LineIgnored, ReadLine
  <2>2. PICK v \in Value : LastWord(v, lines, LinesOf(o), Default[o]) /\ cfg[o] = Meant(o, v)
    BY <2>1 DEF CfgInv
  <2>3. l \in Item
    BY ConfigurationAssumption
  <2>4. CASE Read(l, o)
    <3>1. cfg' = [cfg EXCEPT ![l.key] = Meant(l.key, l.val)]
      BY <1>1, <2>4 DEF Read, ParsedLine, TextLine, CertLine, NoLine, BadLine, SamlLine, SetCfg,
           Option, Switches, Numbers, Arrays, Strings, Secrets, OnlyInFile, OnlyAsArg, Gateway
    <3>2. cfg'[o] = Meant(o, l.val)
      BY <2>4, <3>1 DEF Read
    <3>3. LastWord(l.val, lines', LinesOf(o)', Default[o])
      <4>1. /\ LinesOf(o) \in SUBSET (1 .. Len(lines))
            /\ LinesOf(o)' = LinesOf(o) \cup {Len(lines) + 1}
        BY <2>1, <2>4, LinesOfAppend
      <4>2. LastWord(l.val, Append(lines, l), LinesOf(o) \cup {Len(lines) + 1}, Default[o])
        BY <4>1, WordHeard
      <4> QED
        BY <2>1, <4>1, <4>2
    <3>4. l.val \in Value
      BY <2>3, ItemType
    <3> QED
      BY <3>2, <3>3, <3>4
  <2>5. CASE ~Read(l, o)
    <3>1. cfg'[o] = cfg[o]
      <4>1. CASE cfg' = cfg
        BY <4>1
      <4>2. CASE /\ l.val # "bad" /\ l.key \notin OnlyAsArg /\ ~StopsReading(l)
                 /\ cfg' = [cfg EXCEPT ![l.key] = Meant(l.key, l.val)]
        BY <2>5, <4>2 DEF Read
      <4> QED
        BY <1>1, <2>3, <4>1, <4>2, ItemType
        DEF ParsedLine, TextLine, CertLine, NoLine, BadLine, SamlLine, SetCfg, LineIgnored,
            StopsReading, Parsed, Switches, Numbers, Arrays, Strings, Secrets, OnlyInFile,
            OnlyAsArg
    <3>2. LastWord(v, lines', LinesOf(o)', Default[o])
      BY <2>1, <2>2, <2>5, LinesOfAppend, WordIgnored
    <3> QED
      BY <2>2, <3>1, <3>2
  <2> QED
    BY <2>4, <2>5
<1>2. CASE UNCHANGED <<lines, cfg>> /\ pc \in {"options", "file", "merge"}
  <2>1. LinesOf(o)' = LinesOf(o)
    BY <1>2 DEF LinesOf, StopsReading
  <2> QED
    BY <1>2, <2>1 DEF CfgInv
<1>3. ASSUME NEW a \in Args, SwitchArg(a) \/ NumberArg(a) \/ SamlArg(a) \/ TlsArg(a)
                              \/ TextArg(a) \/ CertArg(a) \/ HostArg(a)
      PROVE UNCHANGED <<lines, cfg>> /\ pc = "options"
  BY <1>3, Zenon DEF SwitchArg, NumberArg, SamlArg, TlsArg, TextArg, CertArg, HostArg, SetCli,
                     ArgIgnored, Give
<1>4. ASSUME NEW a \in Args, BadArg(a) PROVE FALSE
  BY <1>4 DEF BadArg
<1>5. ASSUME EndOfArgs \/ EndOfFile PROVE UNCHANGED <<lines, cfg>> /\ pc \in {"options", "file"}
  BY <1>5 DEF EndOfArgs, EndOfFile
<1>6. ASSUME Merge \/ ReadHost \/ Check PROVE FALSE
  BY <1>6 DEF Merge, ReadHost, Check
<1> QED
  BY <1>1, <1>2, <1>3, <1>4, <1>5, <1>6 DEF Next

LEMMA EngineStep ==
  ASSUME TypeOK, EngineInv, Next PROVE EngineInv'
<1> USE DEF TypeOK, EngineInv
<1>1. ASSUME NEW a \in Args, SwitchArg(a) \/ NumberArg(a) \/ SamlArg(a) \/ TlsArg(a)
                              \/ TextArg(a) \/ CertArg(a) \/ HostArg(a)
      PROVE UNCHANGED <<cfg, engine>> /\ pc = "options"
  BY <1>1, Zenon DEF SwitchArg, NumberArg, SamlArg, TlsArg, TextArg, CertArg, HostArg, SetCli,
                     ArgIgnored, Give
<1>2. ASSUME NEW a \in Args, BadArg(a) PROVE pc' = "usage"
  BY <1>2 DEF BadArg
<1>3. ASSUME NEW l \in Lines, ParsedLine(l) \/ CertLine(l) \/ NoLine(l) \/ BadLine(l)
                              \/ SamlLine(l)
      PROVE pc = "file" /\ cfg'["user-cert"] = cfg["user-cert"] /\ engine' = engine
  <2>1. pc = "file" /\ engine' = engine
    BY <1>3, Zenon DEF ParsedLine, CertLine, NoLine, BadLine, SamlLine, SetCfg, LineIgnored,
                       ReadLine
  <2>2. cfg' = cfg \/ (l.key # "user-cert" /\ SetCfg(l))
    BY <1>3 DEF ParsedLine, CertLine, NoLine, BadLine, SamlLine, LineIgnored, Switches, Numbers
  <2>3. "user-cert" \in Option
    BY DEF Option, Strings
  <2> QED
    BY <2>1, <2>2, <2>3 DEF SetCfg
<1>4. ASSUME NEW l \in Lines, TextLine(l)
      PROVE pc = "file" /\ (cfg'["user-cert"] = "pkcs11" => engine')
  <2>1. pc = "file" /\ engine' = (engine \/ (l.key = "user-cert" /\ l.val = "pkcs11"))
    BY <1>4, Zenon DEF TextLine, SetCfg, ReadLine
  <2>2. "user-cert" \in Option /\ "user-cert" \notin Arrays
    BY DEF Option, Strings, Arrays
  <2>3. cfg'["user-cert"] = IF l.key = "user-cert" THEN l.val ELSE cfg["user-cert"]
    BY <1>4, <2>2 DEF TextLine, SetCfg, Meant
  <2> QED
    BY <2>1, <2>3
<1>5. ASSUME EndOfArgs \/ EndOfFile \/ Check PROVE UNCHANGED <<cfg, engine>> /\ pc # "usage"
  BY <1>5, Zenon DEF EndOfArgs, EndOfFile, Check
<1>7. ASSUME ReadHost PROVE cfg'["user-cert"] = cfg["user-cert"] /\ engine' = engine /\ pc # "usage"
  BY <1>7 DEF ReadHost, Option, Strings, Gateway
<1>6. ASSUME Merge PROVE pc = "merge" /\ (cfg'["user-cert"] = "pkcs11" => engine')
  <2>1. "user-cert" \in Option
    BY DEF Option, Strings
  <2>2. /\ pc = "merge"
        /\ cfg'["user-cert"] = cfg["user-cert"] \/ cfg'["user-cert"] = cli["user-cert"]
    BY <1>6, <2>1 DEF Merge
  <2>3. engine' = (engine \/ cli["user-cert"] = "pkcs11")
    BY <1>6, Zenon DEF Merge
  <2>4. cfg["user-cert"] = "pkcs11" => engine
    BY <2>2
  <2> QED
    <3>1. CASE cfg'["user-cert"] = cfg["user-cert"]
      BY <2>2, <2>3, <2>4, <3>1, Zenon
    <3>2. CASE cfg'["user-cert"] = cli["user-cert"]
      BY <2>2, <2>3, <3>2, Zenon
    <3> QED
      BY <2>2, <3>1, <3>2, Zenon
<1> QED
  BY <1>1, <1>2, <1>3, <1>4, <1>5, <1>6, <1>7 DEF Next

-----------------------------------------------------------------------------
(* The lists of trusted certificates *)

\* Nothing has been collected from nothing.
LEMMA NothingCollected ==
  ASSUME NEW items
  PROVE  Collected(<<>>, items, {})
<1> DEFINE e == <<>>
           at == [i \in DOMAIN e |-> 0]
<1>1. DOMAIN e = {}
  OBVIOUS
<1> HIDE DEF e
<1>2. at \in [DOMAIN e -> {}]
  BY <1>1
<1> HIDE DEF at
<1>3. /\ \A i, j \in DOMAIN e : i < j => at[i] < at[j]
      /\ \A i \in DOMAIN e : e[i] = items[at[i]].val
  BY <1>1
<1>4. Collected(e, items, {})
  BY <1>2, <1>3, Zenon DEF Collected
<1> QED
  BY <1>4 DEF e

\* An empty list has been collected from no place.
LEMMA EmptyCollected ==
  ASSUME NEW V, NEW list \in Seq(V), NEW items, NEW which, Collected(list, items, which)
  PROVE  list = <<>> <=> which = {}
<1>1. PICK at \in [DOMAIN list -> which] : \A k \in which : \E i \in DOMAIN list : at[i] = k
  BY DEF Collected
<1>2. ASSUME list = <<>> PROVE which = {}
  BY <1>1, <1>2
<1>3. ASSUME which = {} PROVE list = <<>>
  <2>1. DOMAIN list = {}
    BY <1>1, <1>3
  <2>2. DOMAIN list = 1 .. Len(list) /\ Len(list) \in Nat
    BY LenProperties
  <2>3. Len(list) = 0
    BY <2>1, <2>2
  <2> QED
    BY <2>3, EmptySeq
<1> QED
  BY <1>2, <1>3

\* One more item that does not count changes nothing.
LEMMA CollectedIgnored ==
  ASSUME NEW S, NEW items \in Seq(S), NEW x \in S, NEW list,
         NEW which \in SUBSET (1 .. Len(items)), Collected(list, items, which)
  PROVE  Collected(list, Append(items, x), which)
<1>1. \A k \in which : Append(items, x)[k] = items[k]
  BY AppendProperties
<1>2. PICK at \in [DOMAIN list -> which] :
        /\ \A i, j \in DOMAIN list : i < j => at[i] < at[j]
        /\ \A k \in which : \E i \in DOMAIN list : at[i] = k
        /\ \A i \in DOMAIN list : list[i] = items[at[i]].val
  BY Zenon DEF Collected
<1>3. \A i \in DOMAIN list : list[i] = Append(items, x)[at[i]].val
  BY <1>1, <1>2
<1> QED
  BY <1>2, <1>3, Zenon DEF Collected

\* One that does is the last of the list.
LEMMA CollectedHeard ==
  ASSUME NEW S, NEW items \in Seq(S), NEW x \in S, NEW V, NEW list \in Seq(V), x.val \in V,
         NEW which \in SUBSET (1 .. Len(items)), Collected(list, items, which)
  PROVE  Collected(Append(list, x.val), Append(items, x), which \cup {Len(items) + 1})
<1>1. PICK at \in [DOMAIN list -> which] :
        /\ \A i, j \in DOMAIN list : i < j => at[i] < at[j]
        /\ \A k \in which : \E i \in DOMAIN list : at[i] = k
        /\ \A i \in DOMAIN list : list[i] = items[at[i]].val
  BY DEF Collected
<1> DEFINE n == Len(list) + 1
           m == Len(items) + 1
           more == Append(list, x.val)
           longer == Append(items, x)
           to == [i \in 1 .. n |-> IF i = n THEN m ELSE at[i]]
<1>2. /\ Len(list) \in Nat /\ DOMAIN list = 1 .. Len(list) /\ DOMAIN more = 1 .. n
      /\ \A i \in 1 .. Len(list) : more[i] = list[i]
      /\ more[n] = x.val
  BY AppendProperties, LenProperties
<1>3. /\ Len(items) \in Nat /\ \A k \in 1 .. Len(items) : longer[k] = items[k]
      /\ longer[m] = x
  BY AppendProperties, LenProperties
<1> HIDE DEF more, longer
<1>4. \A i \in 1 .. n : i = n \/ (i \in DOMAIN list /\ i # n)
  BY <1>2
<1>5. to \in [1 .. n -> which \cup {m}] /\ to[n] = m /\ \A i \in DOMAIN list : to[i] = at[i]
  <2>1. n \in 1 .. n /\ \A i \in DOMAIN list : i \in 1 .. n /\ i # n
    BY <1>2
  <2> QED
    BY <1>4, <2>1
<1> HIDE DEF to
<1>6. ASSUME NEW i \in 1 .. n, NEW j \in 1 .. n, i < j PROVE to[i] < to[j]
  <2>1. i \in DOMAIN list /\ i # n
    BY <1>2, <1>6
  <2>2. at[i] \in 1 .. Len(items)
    BY <2>1
  <2>3. CASE j = n
    BY <1>3, <1>5, <2>1, <2>2, <2>3
  <2>4. CASE j # n
    BY <1>1, <1>4, <1>5, <1>6, <2>1, <2>4
  <2> QED
    BY <2>3, <2>4
<1>7. ASSUME NEW k \in which \cup {m} PROVE \E i \in 1 .. n : to[i] = k
  <2>1. CASE k = m
    BY <1>2, <1>5, <2>1
  <2>2. CASE k \in which
    <3>1. PICK i \in DOMAIN list : at[i] = k
      BY <1>1, <2>2
    <3>2. i \in 1 .. n
      BY <1>2
    <3> QED
      BY <1>5, <3>1, <3>2
  <2> QED
    BY <2>1, <2>2
<1>8. ASSUME NEW i \in 1 .. n PROVE more[i] = longer[to[i]].val
  <2>1. CASE i = n
    BY <1>2, <1>3, <1>5, <2>1
  <2>2. CASE i # n
    <3>1. i \in DOMAIN list /\ at[i] \in 1 .. Len(items)
      BY <1>4, <2>2
    <3> QED
      BY <1>1, <1>2, <1>3, <1>5, <3>1
  <2> QED
    BY <2>1, <2>2
<1>9. Collected(more, longer, which \cup {m})
  <2> HIDE DEF n, m
  <2>1. to \in [DOMAIN more -> which \cup {m}]
    BY <1>2, <1>5
  <2>2. \A i, j \in DOMAIN more : i < j => to[i] < to[j]
    BY <1>2, <1>6
  <2>3. \A k \in which \cup {m} : \E i \in DOMAIN more : to[i] = k
    BY <1>2, <1>7
  <2>4. \A i \in DOMAIN more : more[i] = longer[to[i]].val
    BY <1>2, <1>8
  <2> QED
    BY <2>1, <2>2, <2>3, <2>4 DEF Collected
<1> QED
  BY <1>9 DEF more, longer

\* What was lost was said.
LostInv == \A k \in Nat : /\ <<"arg", k>> \in lost => k <= Len(args)
                          /\ <<"line", k>> \in lost => k <= Len(lines)

\* Both lists have what was said so far.
CertsInv ==
  /\ pc \in {"options", "file", "merge"} =>
       Collected(cliCerts, args, CertArgs) /\ Collected(certs, lines, CertLines)
  /\ pc = "host" \/ Complete =>
       IF CertArgs # {} THEN Collected(certs, args, CertArgs)
                        ELSE Collected(certs, lines, CertLines)
  /\ LostInv

LEMMA NextNotLost ==
  ASSUME LostInv
  PROVE  /\ args \in Seq(Args) => Len(args) \in Nat /\ <<"arg", Len(args) + 1>> \notin lost
         /\ lines \in Seq(Lines) => Len(lines) \in Nat /\ <<"line", Len(lines) + 1>> \notin lost
<1>1. ASSUME args \in Seq(Args) PROVE Len(args) \in Nat /\ <<"arg", Len(args) + 1>> \notin lost
  <2>1. Len(args) \in Nat /\ Len(args) + 1 \in Nat /\ ~(Len(args) + 1 <= Len(args))
    BY <1>1, LenProperties
  <2> QED
    BY <2>1 DEF LostInv
<1>2. ASSUME lines \in Seq(Lines)
      PROVE  Len(lines) \in Nat /\ <<"line", Len(lines) + 1>> \notin lost
  <2>1. Len(lines) \in Nat /\ Len(lines) + 1 \in Nat /\ ~(Len(lines) + 1 <= Len(lines))
    BY <1>2, LenProperties
  <2> QED
    BY <2>1 DEF LostInv
<1> QED
  BY <1>1, <1>2

\* One more item, whether or not it finds memory, is lost at its own place at most.
LEMMA LostStep ==
  ASSUME LostInv, args \in Seq(Args), lines \in Seq(Lines),
         \/ /\ \E a \in Args : args' = Append(args, a)
            /\ lines' = lines /\ lost' \in {lost, lost \cup {<<"arg", Len(args) + 1>>}}
         \/ /\ \E l \in Lines : lines' = Append(lines, l)
            /\ args' = args /\ lost' \in {lost, lost \cup {<<"line", Len(lines) + 1>>}}
  PROVE  LostInv'
<1>1. Len(args) \in Nat /\ Len(lines) \in Nat
  BY LenProperties
<1>2. CASE /\ \E a \in Args : args' = Append(args, a)
           /\ lines' = lines /\ lost' \in {lost, lost \cup {<<"arg", Len(args) + 1>>}}
  <2>1. Len(args') = Len(args) + 1
    BY <1>2, AppendProperties
  <2>2. \A k \in Nat : /\ <<"arg", k>> \in lost' => <<"arg", k>> \in lost \/ k = Len(args) + 1
                       /\ <<"line", k>> \in lost' => <<"line", k>> \in lost
    BY <1>2
  <2>3. /\ \A k \in Nat : k <= Len(args) => k <= Len(args')
        /\ \A k \in Nat : k <= Len(lines) => k <= Len(lines')
    BY <1>1, <1>2, <2>1
  <2>4. ASSUME NEW k \in Nat, <<"arg", k>> \in lost' PROVE k <= Len(args')
    <3>1. <<"arg", k>> \in lost \/ (k = Len(args) + 1 /\ Len(args') = Len(args) + 1)
      BY <1>2, <2>1, <2>2, <2>4, Zenon
    <3>2. <<"arg", k>> \in lost => k <= Len(args)
      BY Zenon DEF LostInv
    <3> QED
      BY <1>1, <2>3, <3>1, <3>2
  <2>5. ASSUME NEW k \in Nat, <<"line", k>> \in lost' PROVE k <= Len(lines')
    <3>1. <<"line", k>> \in lost \/ (k = Len(lines) + 1 /\ Len(lines') = Len(lines) + 1)
      BY <1>2, <2>1, <2>2, <2>5, Zenon
    <3>2. <<"line", k>> \in lost => k <= Len(lines)
      BY Zenon DEF LostInv
    <3> QED
      BY <1>1, <2>3, <3>1, <3>2
  <2> QED
    BY <2>4, <2>5, Zenon DEF LostInv
<1>3. CASE /\ \E l \in Lines : lines' = Append(lines, l)
           /\ args' = args /\ lost' \in {lost, lost \cup {<<"line", Len(lines) + 1>>}}
  <2>1. Len(lines') = Len(lines) + 1
    BY <1>3, AppendProperties
  <2>2. \A k \in Nat : /\ <<"line", k>> \in lost' => <<"line", k>> \in lost \/ k = Len(lines) + 1
                       /\ <<"arg", k>> \in lost' => <<"arg", k>> \in lost
    BY <1>3
  <2>3. /\ \A k \in Nat : k <= Len(args) => k <= Len(args')
        /\ \A k \in Nat : k <= Len(lines) => k <= Len(lines')
    BY <1>1, <1>3, <2>1
  <2>4. ASSUME NEW k \in Nat, <<"arg", k>> \in lost' PROVE k <= Len(args')
    <3>1. <<"arg", k>> \in lost \/ (k = Len(args) + 1 /\ Len(args') = Len(args) + 1)
      BY <1>3, <2>1, <2>2, <2>4, Zenon
    <3>2. <<"arg", k>> \in lost => k <= Len(args)
      BY Zenon DEF LostInv
    <3> QED
      BY <1>1, <2>3, <3>1, <3>2
  <2>5. ASSUME NEW k \in Nat, <<"line", k>> \in lost' PROVE k <= Len(lines')
    <3>1. <<"line", k>> \in lost \/ (k = Len(lines) + 1 /\ Len(lines') = Len(lines) + 1)
      BY <1>3, <2>1, <2>2, <2>5, Zenon
    <3>2. <<"line", k>> \in lost => k <= Len(lines)
      BY Zenon DEF LostInv
    <3> QED
      BY <1>1, <2>3, <3>1, <3>2
  <2> QED
    BY <2>4, <2>5, Zenon DEF LostInv
<1> QED
  BY <1>2, <1>3

LEMMA CertArgsAppend ==
  ASSUME NEW a \in Args, args \in Seq(Args), args' = Append(args, a), CertsInv,
         lost' = lost \/ lost' = lost \cup {<<"arg", Len(args) + 1>>}
  PROVE  /\ CertArgs \in SUBSET (1 .. Len(args))
         /\ CertArgs' = IF a.key = "trusted-cert" /\ lost' = lost
                        THEN CertArgs \cup {Len(args) + 1} ELSE CertArgs
<1>0. Len(args) \in Nat /\ <<"arg", Len(args) + 1>> \notin lost
  BY NextNotLost DEF CertsInv
<1>3. /\ \A k \in 1 .. Len(args) : <<"arg", k>> \in lost' <=> <<"arg", k>> \in lost
      /\ <<"arg", Len(args) + 1>> \in lost' <=> lost' # lost
  BY <1>0
<1>1. /\ Len(args) \in Nat /\ DOMAIN args = 1 .. Len(args)
      /\ DOMAIN args' = 1 .. Len(args) + 1 /\ args'[Len(args) + 1] = a
      /\ \A k \in 1 .. Len(args) : args'[k] = args[k]
  BY AppendProperties, LenProperties
<1>2. 1 .. Len(args) + 1 = (1 .. Len(args)) \cup {Len(args) + 1}
  BY <1>1
<1> QED
  BY <1>1, <1>2, <1>3 DEF CertArgs

LEMMA CertLinesAppend ==
  ASSUME NEW l \in Lines, lines \in Seq(Lines), lines' = Append(lines, l), CertsInv,
         lost' = lost \/ lost' = lost \cup {<<"line", Len(lines) + 1>>}
  PROVE  /\ CertLines \in SUBSET (1 .. Len(lines))
         /\ CertLines' = IF l.key = "trusted-cert" /\ l.val # "bad" /\ lost' = lost
                         THEN CertLines \cup {Len(lines) + 1} ELSE CertLines
<1>0. Len(lines) \in Nat /\ <<"line", Len(lines) + 1>> \notin lost
  BY NextNotLost DEF CertsInv
<1>3. /\ \A k \in 1 .. Len(lines) : <<"line", k>> \in lost' <=> <<"line", k>> \in lost
      /\ <<"line", Len(lines) + 1>> \in lost' <=> lost' # lost
  BY <1>0
<1>1. /\ Len(lines) \in Nat /\ DOMAIN lines = 1 .. Len(lines)
      /\ DOMAIN lines' = 1 .. Len(lines) + 1 /\ lines'[Len(lines) + 1] = l
      /\ \A k \in 1 .. Len(lines) : lines'[k] = lines[k]
  BY AppendProperties, LenProperties
<1>2. 1 .. Len(lines) + 1 = (1 .. Len(lines)) \cup {Len(lines) + 1}
  BY <1>1
<1> QED
  BY <1>1, <1>2, <1>3 DEF CertLines

LEMMA CertsInvStep ==
  ASSUME TypeOK, CertsInv, Next PROVE CertsInv'
<1> USE DEF TypeOK
<1>1. ASSUME NEW a \in Args, SwitchArg(a) \/ NumberArg(a) \/ SamlArg(a) \/ TlsArg(a)
                              \/ TextArg(a) \/ CertArg(a) \/ HostArg(a)
      PROVE  CertsInv'
  <2>1. args' = Append(args, a) /\ UNCHANGED <<lines, certs>> /\ pc = "options" /\ pc' = pc
    BY <1>1, Zenon DEF SwitchArg, NumberArg, SamlArg, TlsArg, TextArg, CertArg, HostArg,
                       SetCli, ArgIgnored, Give
  <2>6. lost' = lost \/ lost' = lost \cup {<<"arg", Len(args) + 1>>}
    BY <1>1, Zenon DEF SwitchArg, NumberArg, SamlArg, TlsArg, TextArg, CertArg, HostArg,
                       SetCli, ArgIgnored, Give
  <2>7. LostInv'
    BY <2>1, <2>6, LostStep DEF CertsInv
  <2>2. Collected(cliCerts, args, CertArgs) /\ Collected(certs, lines, CertLines)
    BY <2>1 DEF CertsInv
  <2>3. Collected(certs, lines, CertLines)'
    BY <2>1, <2>2, <2>6 DEF CertLines
  <2>4. CASE a.key = "trusted-cert" /\ lost' = lost
    <3>1. cliCerts' = Append(cliCerts, a.val)
      <4>1. CertArg(a)
        BY <1>1, <2>4 DEF SwitchArg, NumberArg, SamlArg, TlsArg, TextArg, HostArg, Switches,
             Numbers, Arrays, Strings, Secrets, OnlyAsArg
      <4>2. Len(args) \in Nat /\ <<"arg", Len(args) + 1>> \notin lost
        BY NextNotLost DEF CertsInv
      <4> QED
        BY <2>4, <4>1, <4>2 DEF CertArg
    <3>2. a.val \in Value
      BY ConfigurationAssumption, ItemType
    <3>3. /\ CertArgs \in SUBSET (1 .. Len(args))
          /\ CertArgs' = CertArgs \cup {Len(args) + 1}
      BY <2>1, <2>4, <2>6, CertArgsAppend
    <3>4. Collected(Append(cliCerts, a.val), Append(args, a), CertArgs \cup {Len(args) + 1})
      BY <2>2, <3>2, <3>3, CollectedHeard
    <3>5. Collected(cliCerts, args, CertArgs)'
      BY <2>1, <3>1, <3>3, <3>4
    <3> QED
      BY <2>1, <2>3, <2>7, <3>5 DEF CertsInv, Complete
  <2>5. CASE ~(a.key = "trusted-cert" /\ lost' = lost)
    <3>1. cliCerts' = cliCerts
      BY <1>1, <2>5 DEF SwitchArg, NumberArg, SamlArg, TlsArg, TextArg, CertArg, HostArg,
           SetCli, ArgIgnored
    <3>2. CertArgs \in SUBSET (1 .. Len(args)) /\ CertArgs' = CertArgs
      BY <2>1, <2>5, <2>6, CertArgsAppend
    <3>3. Collected(cliCerts, Append(args, a), CertArgs)
      BY <2>2, <3>2, CollectedIgnored
    <3>4. Collected(cliCerts, args, CertArgs)'
      BY <2>1, <3>1, <3>2, <3>3
    <3> QED
      BY <2>1, <2>3, <2>7, <3>4 DEF CertsInv, Complete
  <2> QED
    BY <2>4, <2>5
<1>2. ASSUME NEW a \in Args, BadArg(a) PROVE CertsInv'
  <2>1. /\ args' = Append(args, a) /\ pc' = "usage" /\ UNCHANGED <<lines, lost>>
        /\ Len(args) \in Nat /\ Len(args') = Len(args) + 1
    BY <1>2, LenProperties, AppendProperties DEF BadArg
  <2>2. LostInv'
    BY <2>1, LostStep DEF CertsInv
  <2> QED
    BY <2>1, <2>2 DEF CertsInv, Complete
<1>3. ASSUME NEW l \in Lines, ParsedLine(l) \/ TextLine(l) \/ CertLine(l) \/ NoLine(l)
                              \/ BadLine(l) \/ SamlLine(l)
      PROVE  CertsInv'
  <2>1. /\ lines' = Append(lines, l) /\ UNCHANGED <<args, cliCerts>> /\ pc = "file"
        /\ pc' \in {"file", "merge"}
    BY <1>3 DEF ParsedLine, TextLine, CertLine, NoLine, BadLine, SamlLine, SetCfg,
                LineIgnored, ReadLine
  <2>6. lost' = lost \/ lost' = lost \cup {<<"line", Len(lines) + 1>>}
    BY <1>3 DEF ParsedLine, TextLine, CertLine, NoLine, BadLine, SamlLine, SetCfg,
                LineIgnored
  <2>7. LostInv'
    BY <2>1, <2>6, LostStep DEF CertsInv
  <2>2. Collected(cliCerts, args, CertArgs) /\ Collected(certs, lines, CertLines)
    BY <2>1 DEF CertsInv
  <2>3. Collected(cliCerts, args, CertArgs)'
    BY <2>1, <2>2, <2>6 DEF CertArgs
  <2>4. CASE l.key = "trusted-cert" /\ l.val # "bad" /\ lost' = lost
    <3>1. certs' = Append(certs, l.val)
      <4>1. CertLine(l)
        BY <1>3, <2>4 DEF ParsedLine, TextLine, NoLine, BadLine, SamlLine, StopsReading,
             Switches, Numbers, Arrays, Strings, Secrets, OnlyInFile
      <4>2. Len(lines) \in Nat /\ <<"line", Len(lines) + 1>> \notin lost
        BY NextNotLost DEF CertsInv
      <4> QED
        BY <2>4, <4>1, <4>2 DEF CertLine
    <3>2. l.val \in Value
      BY ConfigurationAssumption, ItemType
    <3>3. /\ CertLines \in SUBSET (1 .. Len(lines))
          /\ CertLines' = CertLines \cup {Len(lines) + 1}
      BY <2>1, <2>4, <2>6, CertLinesAppend
    <3>4. Collected(Append(certs, l.val), Append(lines, l), CertLines \cup {Len(lines) + 1})
      BY <2>2, <3>2, <3>3, CollectedHeard
    <3>5. Collected(certs, lines, CertLines)'
      BY <2>1, <3>1, <3>3, <3>4
    <3> QED
      BY <2>1, <2>3, <2>7, <3>5 DEF CertsInv, Complete
  <2>5. CASE ~(l.key = "trusted-cert" /\ l.val # "bad" /\ lost' = lost)
    <3>1. certs' = certs
      BY <1>3, <2>5 DEF ParsedLine, TextLine, CertLine, NoLine, BadLine, SamlLine, SetCfg,
           LineIgnored
    <3>2. CertLines \in SUBSET (1 .. Len(lines)) /\ CertLines' = CertLines
      BY <2>1, <2>5, <2>6, CertLinesAppend
    <3>3. Collected(certs, Append(lines, l), CertLines)
      BY <2>2, <3>2, CollectedIgnored
    <3>4. Collected(certs, lines, CertLines)'
      BY <2>1, <3>1, <3>2, <3>3
    <3> QED
      BY <2>1, <2>3, <2>7, <3>4 DEF CertsInv, Complete
  <2> QED
    BY <2>4, <2>5
<1>4. CASE EndOfArgs \/ EndOfFile \/ ReadHost \/ Check
  <2>1. /\ UNCHANGED <<args, lines, cliCerts, certs, lost>>
        /\ \/ pc \in {"options", "file"} /\ pc' \in {"file", "merge", "usage"}
           \/ pc \in {"host", "check"} /\ pc' \in {"check", "done", "usage"}
    BY <1>4 DEF EndOfArgs, EndOfFile, ReadHost, Check
  <2>2. CertArgs' = CertArgs /\ CertLines' = CertLines
    BY <2>1 DEF CertArgs, CertLines
  <2> QED
    BY <2>1, <2>2 DEF CertsInv, LostInv, Complete
<1>5. CASE Merge
  <2>1. /\ UNCHANGED <<args, lines, cliCerts, lost>> /\ pc = "merge" /\ pc' = "host"
        /\ certs' = IF cliCerts # <<>> THEN cliCerts ELSE certs
    BY <1>5 DEF Merge
  <2>2. Collected(cliCerts, args, CertArgs) /\ Collected(certs, lines, CertLines)
    BY <2>1 DEF CertsInv
  <2>3. CertArgs' = CertArgs /\ CertLines' = CertLines
    BY <2>1 DEF CertArgs, CertLines
  <2>4. cliCerts = <<>> <=> CertArgs = {}
    BY <2>2, EmptyCollected
  <2> QED
    BY <2>1, <2>2, <2>3, <2>4 DEF CertsInv, LostInv, Complete
<1> QED
  BY <1>1, <1>2, <1>3, <1>4, <1>5 DEF Next

-----------------------------------------------------------------------------
(* The theorems *)

\* The merge leaves the gateway to the file.
MergedInv ==
  pc = "host" \/ Complete => \A o \in Option :
    \E line \in Value :
      /\ LastWord(line, lines, LinesOf(o), Default[o])
      /\ cfg[o] = IF cli[o] = "unset" \/ o = "otp-prompt" \/ (pc = "host" /\ o \in Gateway)
                  THEN Meant(o, line) ELSE cli[o]

IInv == TypeOK /\ CliInv /\ CfgInv /\ EngineInv /\ CertsInv /\ MergedInv

LEMMA MergedStep ==
  ASSUME TypeOK, CfgInv, MergedInv, Next PROVE MergedInv'
<1> USE DEF TypeOK
<1> SUFFICES ASSUME pc' = "host" \/ Complete', NEW o \in Option
             PROVE  \E line \in Value :
                      /\ LastWord(line, lines', LinesOf(o)', Default[o])
                      /\ cfg'[o] = IF \/ cli'[o] = "unset" \/ o = "otp-prompt"
                                      \/ pc' = "host" /\ o \in Gateway
                                   THEN Meant(o, line) ELSE cli'[o]
  BY DEF MergedInv, LastWord, Meant, Default
<1>1. Merge \/ ReadHost \/ Check
  BY DEF Next, Complete, SwitchArg, NumberArg, SamlArg, TlsArg, TextArg, CertArg, HostArg, BadArg,
         SetCli, ArgIgnored, Give, EndOfArgs, ParsedLine, TextLine, CertLine, NoLine, BadLine,
         SamlLine, SetCfg, LineIgnored, ReadLine, EndOfFile
<1>2. LinesOf(o)' = LinesOf(o) /\ lines' = lines /\ cli' = cli
  BY <1>1 DEF Merge, ReadHost, Check, LinesOf, StopsReading
<1>3. CASE Merge
  <2>1. PICK line \in Value :
          LastWord(line, lines, LinesOf(o), Default[o]) /\ cfg[o] = Meant(o, line)
    BY <1>3 DEF CfgInv, Merge
  <2>2. cfg'[o] = IF Merged(o) THEN cli[o] ELSE cfg[o]
    BY <1>3 DEF Merge
  <2>3. pc' = "host"
    BY <1>3 DEF Merge
  <2> QED
    BY <1>2, <2>1, <2>2, <2>3 DEF Merged
<1>4. CASE ReadHost
  <2>1. PICK line \in Value :
          /\ LastWord(line, lines, LinesOf(o), Default[o])
          /\ cfg[o] = IF cli[o] = "unset" \/ o = "otp-prompt" \/ o \in Gateway
                      THEN Meant(o, line) ELSE cli[o]
    BY <1>4 DEF MergedInv, ReadHost
  <2>2. pc' = "check" /\ cfg'[o] = IF o \in Gateway /\ cli[o] # "unset" THEN cli[o] ELSE cfg[o]
    BY <1>4 DEF ReadHost, Complete
  <2>3. o \in Gateway => o # "otp-prompt"
    BY DEF Gateway
  <2> QED
    BY <1>2, <2>1, <2>2, <2>3
<1>5. CASE Check
  BY <1>2, <1>5 DEF Check, MergedInv, Complete
<1> QED
  BY <1>1, <1>3, <1>4, <1>5

LEMMA LastWords == TypeOK /\ CliInv /\ MergedInv => LastWordCounts
<1> SUFFICES ASSUME TypeOK, CliInv, MergedInv, Complete, NEW o \in Option
             PROVE  \E arg \in Value :
                      /\ LastWord(arg, args, ArgsOf(o), "unset")
                      /\ \E line \in Value :
                           /\ LastWord(line, lines, LinesOf(o), Default[o])
                           /\ cfg[o] = IF Unheard(o, arg) THEN Meant(o, line) ELSE arg
  BY DEF LastWordCounts
<1>1. PICK arg \in Value : LastWord(arg, args, ArgsOf(o), "unset") /\ cli[o] = Kept(o, arg)
  BY DEF CliInv, Complete
<1>2. PICK line \in Value :
        /\ LastWord(line, lines, LinesOf(o), Default[o])
        /\ cfg[o] = IF cli[o] = "unset" \/ o = "otp-prompt" THEN Meant(o, line) ELSE cli[o]
  BY DEF MergedInv, Complete
<1>3. cfg[o] = IF Unheard(o, arg) THEN Meant(o, line) ELSE arg
  BY <1>1, <1>2 DEF Unheard, Kept, Meant
<1> QED
  BY <1>1, <1>2, <1>3

LEMMA InitInv == Init => IInv
<1> SUFFICES ASSUME Init PROVE IInv
  OBVIOUS
<1>1. Default \in [Option -> Value \ {"bad"}]
  BY DEF Default, Value
<1>2. TypeOK
  <2>1. engine \in BOOLEAN
    BY Zenon DEF Init
  <2> QED
    BY <1>1, <2>1 DEF Init, TypeOK, Value
<1>3. CliInv
  <2> SUFFICES ASSUME NEW o \in Option
               PROVE LastWord("unset", args, ArgsOf(o), "unset") /\ cli[o] = Kept(o, "unset")
    BY DEF CliInv, Value
  <2> QED
    BY DEF Init, LastWord, ArgsOf, Kept, Meant
<1>4. CfgInv
  BY DefaultWord DEF Init, CfgInv
<1>5. CertsInv
  <2>1. CertArgs = {} /\ CertLines = {}
    BY DEF Init, CertArgs, CertLines
  <2> QED
    BY <2>1, NothingCollected DEF Init, CertsInv, LostInv, Complete
<1>6. EngineInv /\ MergedInv
  BY DEF Init, EngineInv, MergedInv, Complete, Default, Option, Strings, Switches, Numbers
<1> QED
  BY <1>2, <1>3, <1>4, <1>5, <1>6 DEF IInv

LEMMA StutterInv == IInv /\ UNCHANGED vars => IInv'
<1> SUFFICES ASSUME IInv, UNCHANGED vars PROVE IInv'
  OBVIOUS
<1> USE DEF vars
<1>1. TypeOK' /\ EngineInv'
  BY DEF IInv, TypeOK, EngineInv
<1>2. \A o : ArgsOf(o)' = ArgsOf(o) /\ LinesOf(o)' = LinesOf(o)
  BY DEF ArgsOf, LinesOf, StopsReading
<1>3. CliInv' /\ CfgInv' /\ MergedInv'
  BY <1>2 DEF IInv, CliInv, CfgInv, MergedInv, LastWord, Kept, Meant, Default, Complete
<1>4. CertsInv'
  <2>1. CertArgs' = CertArgs /\ CertLines' = CertLines
    BY DEF CertArgs, CertLines
  <2> QED
    BY <2>1 DEF IInv, CertsInv, LostInv, Complete
<1> QED
  BY <1>1, <1>3, <1>4 DEF IInv

\* The parts of IInv hold in every reachable state.
THEOREM Invariant == Spec => []IInv
<1>1. IInv /\ [Next]_vars => IInv'
  BY TypeStep, CliInvStep, CfgInvStep, EngineStep, CertsInvStep, MergedStep, StutterInv DEF IInv
<1> QED
  BY <1>1, InitInv, PTL DEF Spec

\* Every option has one of its values, and the ones that do not parse are kept nowhere.
THEOREM TypeCorrect == Spec => []TypeOK
<1>1. IInv => TypeOK
  BY DEF IInv
<1> QED
  BY <1>1, Invariant, PTL

\* However many options and lines there are, and in whatever order, the configuration
\* that is used has the last word of the command line, or else of the file; but for the
\* values of the command line that are lost (Unheard): --otp-prompt, an empty name, SAML
\* port 0 and the largest number.
THEOREM Merging == Spec => []LastWordCounts
<1>1. IInv => LastWordCounts
  BY LastWords DEF IInv
<1> QED
  BY <1>1, Invariant, PTL

\* The certificates that are trusted are those of the command line, all that found memory
\* and in their order, or if there are none those of the file that parse.
THEOREM Trust == Spec => []TrustFromOneSource
<1>1. IInv => TrustFromOneSource
  BY DEF IInv, CertsInv, TrustFromOneSource
<1> QED
  BY <1>1, Invariant, PTL

\* A certificate on a token is never used without its engine.
THEOREM TokenHasEngine == Spec => []EngineForToken
<1>1. IInv => EngineForToken
  BY DEF IInv, EngineInv, EngineForToken, Complete
<1> QED
  BY <1>1, Invariant, PTL
=============================================================================
