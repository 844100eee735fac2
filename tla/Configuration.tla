--------------------------- MODULE Configuration ---------------------------
(***************************************************************************)
(* How openfortivpn comes to its configuration: main reads the options of  *)
(* the command line one by one into cli_cfg, load_config reads the lines   *)
(* of the configuration file one by one into cfg, which holds the          *)
(* defaults, merge_config puts the first on top of the second, and the     *)
(* gateway that the command line names outside its options comes last.     *)
(*                                                                         *)
(* Options are sorted by the way they are kept.  An option or a line is    *)
(* its key and its value; "bad" is a value that does not parse, "unset"    *)
(* the one by which invalid_cfg says that an option was not given.  Some   *)
(* values that can be given are the same as "unset", see Kept.             *)
(***************************************************************************)
EXTENDS Integers, Sequences

CONSTANTS Args, Lines,       \* options and lines that may occur
          MaxArgs, MaxLines  \* bounds: how many of them

Switches == {"set-routes", "set-dns", "half-internet-routes", "pppd-use-peerdns",
             "pppd-accept-remote", "use-resolvconf", "insecure-ssl", "seclevel-1",
             "use-syslog", "no-ftm-push"}
Numbers == {"otp-delay", "persistent"}
Arrays == {"username", "realm", "otp", "sni"}
Strings == {"pinentry", "ca-file", "user-key", "user-cert", "cipher-list", "pppd-log",
            "pppd-plugin", "pppd-ipparam", "pppd-ifname", "pppd-call", "otp-prompt"}
Secrets == {"password", "pem-passphrase"}
OnlyInFile == {"user-agent", "hostcheck", "check-virtual-desktop"}
Gateway == {"host", "port"}
OnlyAsArg == {"cookie", "ifname"}
Option == Switches \cup Numbers \cup Arrays \cup Strings \cup Secrets
          \cup OnlyInFile \cup OnlyAsArg \cup Gateway \cup {"saml-login", "min-tls"}

Key == Option \cup {"trusted-cert", "unknown", "none"}
Value == {"unset", "bad", "empty", "0", "1", "max", "a", "b", "pkcs11"}
Parsed == Switches \cup Numbers \cup {"saml-login", "min-tls", "trusted-cert", "port"}
Item == {x \in [key : Key, val : Value \ {"unset"}] : x.val = "bad" => x.key \in Parsed}

ASSUME ConfigurationAssumption ==
  Args \subseteq Item /\ Lines \subseteq Item /\ MaxArgs \in Nat /\ MaxLines \in Nat

VARIABLES
  pc,
  args, lines,       \* what has been read
  cli, cfg,          \* cli_cfg and cfg, but for the certificates
  cliCerts, certs,   \* their lists of trusted certificates
  lost,              \* which options and lines found no memory for their certificate
  engine             \* use_engine

vars == <<pc, args, lines, cli, cfg, cliCerts, certs, lost, engine>>

\* What main starts from; the user agent it gives after the merge, if there is none.
Default ==
  [o \in Option |->
     IF o \in {"set-routes", "set-dns", "pppd-accept-remote", "use-resolvconf"} THEN "1"
     ELSE IF o \in Switches \cup Numbers THEN "0"
     ELSE IF o \in {"port", "min-tls", "user-agent"} THEN "a" ELSE "unset"]

TypeOK ==
  /\ pc \in {"options", "file", "merge", "host", "check", "done", "usage"}
  /\ args \in Seq(Args) /\ lines \in Seq(Lines)
  /\ cli \in [Option -> Value \ {"bad"}] /\ cfg \in [Option -> Value \ {"bad"}]
  /\ cliCerts \in Seq(Value) /\ certs \in Seq(Value)
  /\ lost \subseteq {"arg", "line"} \X Nat
  /\ engine \in BOOLEAN

Init ==
  /\ pc = "options" /\ args = <<>> /\ lines = <<>>
  /\ cli = [o \in Option |-> "unset"] /\ cfg = Default
  /\ cliCerts = <<>> /\ certs = <<>> /\ lost = {} /\ engine = FALSE

\* What a value asks for: an empty array and SAML port 0 are those of no value.
Meant(o, v) ==
  IF \/ o \in Arrays \cup {"ifname"} /\ v = "empty"
     \/ o = "saml-login" /\ v = "0"
  THEN "unset" ELSE v

\* How cli_cfg keeps it: the largest number is the -1 of invalid_cfg, too.
Kept(o, v) == IF o \in Numbers /\ v = "max" THEN "unset" ELSE Meant(o, v)

-----------------------------------------------------------------------------
(* The command line *)

Give(a) == pc = "options" /\ Len(args) < MaxArgs /\ args' = Append(args, a) /\ pc' = pc

SetCli(a) ==
  /\ Give(a)
  /\ cli' = [cli EXCEPT ![a.key] = Kept(a.key, a.val)]
  /\ UNCHANGED <<lines, cfg, cliCerts, certs, lost, engine>>

ArgIgnored(a) == Give(a) /\ UNCHANGED <<lines, cli, cfg, cliCerts, certs, lost, engine>>

\* strtob, or a flag that getopt_long sets by itself.
SwitchArg(a) ==
  a.key \in Switches /\ IF a.val = "bad" THEN ArgIgnored(a) ELSE SetCli(a)

NumberArg(a) ==
  a.key \in Numbers /\ IF a.val = "bad" THEN ArgIgnored(a) ELSE SetCli(a)

SamlArg(a) ==
  a.key = "saml-login" /\ IF a.val = "bad" THEN ArgIgnored(a) ELSE SetCli(a)

TlsArg(a) ==
  a.key = "min-tls" /\ IF a.val = "bad" THEN ArgIgnored(a) ELSE SetCli(a)

\* strncpy or strdup.
TextArg(a) == a.key \in Arrays \cup Strings \cup Secrets \cup OnlyAsArg /\ SetCli(a)

\* add_trusted_cert, which may find no memory; the length of the digest is not looked at.
CertArg(a) ==
  /\ a.key = "trusted-cert" /\ Give(a)
  /\ \/ cliCerts' = Append(cliCerts, a.val) /\ UNCHANGED lost
     \/ lost' = lost \cup {<<"arg", Len(args) + 1>>} /\ UNCHANGED cliCerts
  /\ UNCHANGED <<lines, cli, cfg, certs, engine>>

\* The gateway, "host" or "host:port": two items, the port right behind its host.  The
\* program leaves it where it is (argv) until the file has been read, see ReadHost.
HostArg(a) ==
  /\ \/ a.key = "host"
     \/ a.key = "port" /\ args # <<>> /\ args[Len(args)].key = "host"
  /\ IF a.val = "bad" THEN ArgIgnored(a) ELSE SetCli(a)

\* goto user_error.
BadArg(a) ==
  /\ a.key \in {"unknown", "none"} \cup OnlyInFile
  /\ pc = "options" /\ Len(args) < MaxArgs
  /\ args' = Append(args, a) /\ pc' = "usage"
  /\ UNCHANGED <<lines, cli, cfg, cliCerts, certs, lost, engine>>

TwoHosts == \E i, j \in DOMAIN args : i # j /\ args[i].key = "host" /\ args[j].key = "host"

EndOfArgs ==
  /\ pc = "options" /\ pc' = IF TwoHosts THEN "usage" ELSE "file"
  /\ UNCHANGED <<args, lines, cli, cfg, cliCerts, certs, lost, engine>>

-----------------------------------------------------------------------------
(* The configuration file *)

ReadLine(l) == pc = "file" /\ Len(lines) < MaxLines /\ lines' = Append(lines, l)

SetCfg(l) ==
  /\ ReadLine(l) /\ pc' = pc
  /\ cfg' = [cfg EXCEPT ![l.key] = Meant(l.key, l.val)]
  /\ UNCHANGED <<args, cli, cliCerts, certs, lost>>

LineIgnored(l) ==
  ReadLine(l) /\ pc' = pc /\ UNCHANGED <<args, cli, cfg, cliCerts, certs, lost>>

\* A value that does not parse leaves what was there.
ParsedLine(l) ==
  /\ l.key \in Switches \cup Numbers \cup {"min-tls", "port"}
  /\ IF l.val = "bad" THEN LineIgnored(l) ELSE SetCfg(l)
  /\ UNCHANGED engine

TextLine(l) ==
  /\ l.key \in Arrays \cup Strings \cup Secrets \cup OnlyInFile \cup {"host"}
  /\ SetCfg(l)
  /\ engine' = (engine \/ (l.key = "user-cert" /\ l.val = "pkcs11"))

CertLine(l) ==
  /\ l.key = "trusted-cert" /\ ReadLine(l) /\ pc' = pc
  /\ \/ l.val = "bad" /\ UNCHANGED <<certs, lost>>
     \/ l.val # "bad" /\ certs' = Append(certs, l.val) /\ UNCHANGED lost
     \/ /\ l.val # "bad" /\ lost' = lost \cup {<<"line", Len(lines) + 1>>}
        /\ UNCHANGED certs
  /\ UNCHANGED <<args, cli, cfg, cliCerts, engine>>

\* "cookie" is ignored, and so is a line that is empty, a comment or without "=".
NoLine(l) ==
  l.key \in {"cookie", "none"} /\ LineIgnored(l) /\ UNCHANGED engine

\* goto err_free: the lines after a bad key or a bad SAML port are not read, and
\* load_config returns 0 all the same.
StopsReading(l) ==
  \/ l.key \in {"unknown", "ifname"}
  \/ l.key = "saml-login" /\ l.val \in {"bad", "0"}

BadLine(l) ==
  /\ StopsReading(l)
  /\ ReadLine(l) /\ pc' = "merge"
  /\ UNCHANGED <<args, cli, cfg, cliCerts, certs, lost, engine>>

SamlLine(l) ==
  l.key = "saml-login" /\ ~StopsReading(l) /\ SetCfg(l) /\ UNCHANGED engine

\* The end of the file, or a file that cannot be opened.
EndOfFile ==
  /\ pc = "file" /\ pc' = "merge"
  /\ UNCHANGED <<args, lines, cli, cfg, cliCerts, certs, lost, engine>>

-----------------------------------------------------------------------------
(* The configuration that is used *)

\* Mutant of Merged: a zero is not taken over either.
MergedUnlessZero(o) == o \notin {"otp-prompt"} \cup Gateway /\ cli[o] \notin {"unset", "0"}

\* otp_prompt is not among what merge_config copies; the gateway is not in cli_cfg.
Merged(o) == o \notin {"otp-prompt"} \cup Gateway /\ cli[o] # "unset"

\* Mutant of Merge: the list of the command line is put after that of the file.
MergeLists ==
  /\ pc = "merge" /\ pc' = "host"
  /\ cfg' = [o \in Option |-> IF Merged(o) THEN cli[o] ELSE cfg[o]]
  /\ certs' = certs \o cliCerts
  /\ engine' = (engine \/ cli["user-cert"] = "pkcs11")
  /\ UNCHANGED <<args, lines, cli, cliCerts, lost>>

\* merge_config, whether or not a file was read.
Merge ==
  /\ pc = "merge" /\ pc' = "host"
  /\ cfg' = [o \in Option |-> IF Merged(o) THEN cli[o] ELSE cfg[o]]
  /\ certs' = IF cliCerts # <<>> THEN cliCerts ELSE certs
  /\ engine' = (engine \/ cli["user-cert"] = "pkcs11")
  /\ UNCHANGED <<args, lines, cli, cliCerts, lost>>

BadPort == \E k \in DOMAIN args : args[k].key = "port" /\ args[k].val = "bad"

\* The gateway of the command line, if it names one, and its port, if it has one.
ReadHost ==
  /\ pc = "host" /\ pc' = IF BadPort THEN "usage" ELSE "check"
  /\ cfg' = [o \in Option |->
       IF o \in Gateway /\ cli[o] # "unset" /\ ~BadPort THEN cli[o] ELSE cfg[o]]
  /\ UNCHANGED <<args, lines, cli, cliCerts, certs, lost, engine>>

\* There must be a host, and a name, a certificate or a session to log in with.
Check ==
  /\ pc = "check"
  /\ pc' = IF /\ cfg["host"] \notin {"unset", "empty"}
              /\ \E o \in {"username", "cookie", "saml-login", "user-cert"} : cfg[o] # "unset"
           THEN "done" ELSE "usage"
  /\ UNCHANGED <<args, lines, cli, cfg, cliCerts, certs, lost, engine>>

Next ==
  \/ \E a \in Args : \/ SwitchArg(a) \/ NumberArg(a) \/ SamlArg(a) \/ TlsArg(a)
                     \/ TextArg(a) \/ CertArg(a) \/ HostArg(a) \/ BadArg(a)
  \/ EndOfArgs
  \/ \E l \in Lines : \/ ParsedLine(l) \/ TextLine(l) \/ CertLine(l) \/ NoLine(l)
                      \/ BadLine(l) \/ SamlLine(l)
  \/ EndOfFile \/ Merge \/ ReadHost \/ Check

Spec == Init /\ [][Next]_vars

-----------------------------------------------------------------------------
(* What the files and options mean *)

\* v is the last of some items' values, or the default if there are none.
LastWord(v, items, which, default) ==
  \/ which = {} /\ v = default
  \/ \E k \in which : v = items[k].val /\ \A j \in which : j <= k

\* What is said of an option on the command line, and in the lines that are read.
ArgsOf(o) == {k \in DOMAIN args : args[k].key = o /\ args[k].val # "bad"}
LinesOf(o) == {k \in DOMAIN lines : /\ lines[k].key = o /\ lines[k].val # "bad"
                                    /\ o \notin OnlyAsArg /\ ~StopsReading(lines[k])}

\* Nothing changes the configuration any more.
Complete == pc \in {"check", "done"}

\* Options that lose what the command line says of them: --otp-prompt always, an
\* empty --username, --realm, --otp and --sni, SAML port 0 and the largest number.
Unheard(o, arg) == o = "otp-prompt" \/ Kept(o, arg) = "unset"

\* But for the options that Unheard names, the configuration is, option by option, the
\* last thing the command line said, or else the last that the lines before the first
\* bad key said, or else the default: however many of them there are, valid or not, and
\* in whatever order (main, load_config, merge_config).  For those the file has the
\* word, see CommandLineOverrides.
LastWordCounts ==
  Complete => \A o \in Option : \E arg \in Value :
    /\ LastWord(arg, args, ArgsOf(o), "unset")
    /\ \E line \in Value :
         /\ LastWord(line, lines, LinesOf(o), Default[o])
         /\ cfg[o] = IF Unheard(o, arg) THEN Meant(o, line) ELSE arg

\* The man page (openfortivpn.1.in:303): "Options passed in the command line will
\* override those from the configuration file": where both name an option, the value is
\* the one that the command line asks for.
CommandLineOverrides ==
  Complete => \A o \in Option, said \in Value \ {"unset"} :
    LastWord(said, args, ArgsOf(o), "unset") /\ LinesOf(o) # {} => cfg[o] = Meant(o, said)

\* list has the values of the items at some places, one for each, in their order.
Collected(list, items, which) ==
  \E at \in [DOMAIN list -> which] :
    /\ \A i, j \in DOMAIN list : i < j => at[i] < at[j]
    /\ \A k \in which : \E i \in DOMAIN list : at[i] = k
    /\ \A i \in DOMAIN list : list[i] = items[at[i]].val

CertArgs == {k \in DOMAIN args : args[k].key = "trusted-cert" /\ <<"arg", k>> \notin lost}
CertLines == {k \in DOMAIN lines : /\ lines[k].key = "trusted-cert" /\ lines[k].val # "bad"
                                   /\ <<"line", k>> \notin lost}

\* The trusted certificates are those of the command line that found memory, if there
\* are any, and otherwise those of the file that are digests and found memory.
TrustFromOneSource ==
  Complete => IF CertArgs # {} THEN Collected(certs, args, CertArgs)
                                  ELSE Collected(certs, lines, CertLines)

\* A certificate on a token is never used without the engine that reads it, wherever
\* it was named.  (The converse fails: the engine stays on when the command line
\* names a file instead.)
EngineForToken == Complete /\ cfg["user-cert"] = "pkcs11" => engine
=============================================================================
