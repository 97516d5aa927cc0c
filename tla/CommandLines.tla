---------------------------- MODULE CommandLines ----------------------------
(***************************************************************************)
(* Command lines: the master's options (vom_master_cli_parse in            *)
(* master/src/cli.c) over the getopt_long that common/compat.h brings for  *)
(* Windows, one step per call of it, and the operator's commands           *)
(* (cli/src/main.c).  An argument is a word: --opt or --opt=value, a       *)
(* cluster of short letters, "--", or anything else.  A short letter goes  *)
(* by the name of its long option.                                         *)
(***************************************************************************)
EXTENDS Integers, Sequences, FiniteSetsExt

CONSTANTS Words, MaxWords     \* the words of the lines tried, and how many

VARIABLES argv, optind, next, out, result
vars == <<argv, optind, next, out, result>>

Long(opt) == [kind |-> "long", opt |-> opt, value |-> <<>>]
LongIs(opt, text) == [kind |-> "long", opt |-> opt, value |-> <<text>>]
Short(letters) == [kind |-> "short", letters |-> letters]
Plain(text) == [kind |-> "plain", text |-> text]
DashDash == [kind |-> "dashdash"]
MinusOne == Short(<<"1">>)

(* The option table: what takes a value, what prints and exits at once. *)
TakesValue == {"config", "log-level", "bind", "simulate"}
Exits == {"help", "version", "print-uuid"}
Options == TakesValue \cup Exits \cup {"daemon", "foreground"}

NoWord == [kind |-> "null"]
atoi(word) == CASE word = MinusOne -> -1 [] word = Plain("3") -> 3 [] OTHER -> 0
validate_endpoint(word) == word = Plain("tcp://host")

vom_master_args == [config_file |-> NoWord, log_level |-> Plain("info"),
                    bind_endpoint |-> NoWord, daemonize |-> FALSE,
                    simulate_workers_count |-> 0]

Lines == UNION {[1..n -> Words] : n \in 0..MaxWords}
Init == /\ argv \in Lines
        /\ optind = 1 /\ next = <<>>
        /\ out = vom_master_args /\ result = "parsing"
-----------------------------------------------------------------------------
(* What a call returns, with optarg, and what optind and the place in a    *)
(* cluster of letters become (<<>>: no letter left, or NULL).              *)
Got(opt, arg, ind, place) == [opt |-> opt, arg |-> arg, optind |-> ind, next |-> place]
Ended(ind) == Got("end", NoWord, ind, next)
Unknown(ind, place) == Got("?", NoWord, ind, place)

(* The letter at place; after the last one it is the terminator, which     *)
(* strchr finds.  Whatever the byte behind the table makes of it, what is  *)
(* returned is 0 or '?', and the caller refuses both.                      *)
Letter(place, ind) ==
  CASE place = <<>>                  -> Got("0", NoWord, ind, place)
    [] place[1] \notin Options       -> Unknown(ind, place)
    [] place[1] \in TakesValue       -> Got(place[1], Short(place), ind, <<>>)
    [] OTHER                         -> Got(place[1], NoWord, ind, place)

getopt ==
  CASE next # <<>>                   -> Letter(Tail(next), optind)
    [] optind > Len(argv)            -> Ended(optind)
    [] argv[optind].kind = "plain"   -> Ended(optind)
    [] OTHER                         -> Letter(argv[optind].letters, optind + 1)

(* Mutant: a value in the next word is read again as a word of its own. *)
getopt_long_KeepsPlace ==
  LET word == argv[optind] IN
  IF optind > Len(argv) \/ word.kind \notin {"long", "dashdash"} THEN getopt
  ELSE CASE word.kind = "dashdash"        -> Ended(optind + 1)
         [] word.opt \notin Options       -> Unknown(optind + 1, next)
         [] word.opt \notin TakesValue    -> Got(word.opt, NoWord, optind + 1, next)
         [] word.value # <<>>             -> Got(word.opt, word.value[1], optind + 1, next)
         [] optind + 1 <= Len(argv)       -> Got(word.opt, argv[optind + 1], optind + 1, next)
         [] OTHER                         -> Unknown(optind + 1, next)

getopt_long ==
  LET word == argv[optind] IN
  IF optind > Len(argv) \/ word.kind \notin {"long", "dashdash"} THEN getopt
  ELSE CASE word.kind = "dashdash"        -> Ended(optind + 1)
         [] word.opt \notin Options       -> Unknown(optind + 1, next)
         [] word.opt \notin TakesValue    -> Got(word.opt, NoWord, optind + 1, next)
         [] word.value # <<>>             -> Got(word.opt, word.value[1], optind + 1, next)
         [] optind + 1 <= Len(argv)       -> Got(word.opt, argv[optind + 1], optind + 2, next)
         [] OTHER                         -> Unknown(optind + 1, next)

Refused(opt, arg) == \/ opt \in {"?", "0"}
                     \/ opt = "bind" /\ ~validate_endpoint(arg)
                     \/ opt = "simulate" /\ atoi(arg) < 0
Stored(opt, arg) ==
  CASE opt = "config"     -> [out EXCEPT !.config_file = arg]
    [] opt = "log-level"  -> [out EXCEPT !.log_level = arg]
    [] opt = "bind"       -> [out EXCEPT !.bind_endpoint = arg]
    [] opt = "simulate"   -> [out EXCEPT !.simulate_workers_count = atoi(arg)]
    [] opt = "daemon"     -> [out EXCEPT !.daemonize = TRUE]
    [] opt = "foreground" -> [out EXCEPT !.daemonize = FALSE]
    [] OTHER              -> out

(* A round of the loop.  On failure nobody looks at the options again.     *)
vom_master_cli_parse ==
  /\ result = "parsing"
  /\ LET got == getopt_long IN
     /\ optind' = got.optind /\ next' = got.next
     /\ result' = CASE got.opt = "end"            -> "ok"
                    [] Refused(got.opt, got.arg)  -> "failed"
                    [] got.opt \in Exits          -> "exited"
                    [] OTHER                      -> "parsing"
     /\ out' = IF Refused(got.opt, got.arg) THEN out ELSE Stored(got.opt, got.arg)
  /\ UNCHANGED argv

Next == vom_master_cli_parse
Spec == Init /\ [][Next]_vars /\ WF_vars(Next)
-----------------------------------------------------------------------------
(* The operator's commands: [--json | --script] verb [argument]. *)
WithArgument == {"submit", "inspect", "cancel", "drain"}
Format(args) == CASE args[1] = Long("json")   -> "JSON"
                  [] args[1] = Long("script") -> "SCRIPT"
                  [] OTHER                    -> "HUMAN"
vom_cli_commands_parse(args) ==
  LET start == IF Format(args) = "HUMAN" THEN 1 ELSE 2
      verb == args[start]
      Is(texts) == verb.kind = "plain" /\ verb.text \in texts
      Made(type, arg) == [rc |-> "SUCCESS", type |-> type, arg |-> arg, format |-> Format(args)]
      Error(rc) == [rc |-> rc, type |-> "UNKNOWN", arg |-> NoWord, format |-> "HUMAN"]
  IN  CASE args = <<>>                 -> Error("BAD_SYNTAX")
        [] start > Len(args)           -> Error("MISSING_ARG")
        [] Is({"status"})              -> Made("status", NoWord)
        [] Is(WithArgument) /\ start + 1 > Len(args) -> Error("MISSING_ARG")
        [] Is(WithArgument)            -> Made(verb.text, args[start + 1])
        [] OTHER                       -> Error("UNKNOWN_CMD")
-----------------------------------------------------------------------------
TypeOK == /\ optind \in 1..(Len(argv) + 1)
          /\ result \in {"parsing", "ok", "failed", "exited"}

(* What a line means, said without going through it: the words that are    *)
(* read as options, up to the first that is none, each with its value.     *)
IsValueIn(line) ==
  LET f[i \in 0..Len(line)] ==
        /\ i > 1 /\ ~f[i - 1]
        /\ line[i - 1].kind = "long" /\ line[i - 1].opt \in TakesValue
        /\ line[i - 1].value = <<>>
  IN f
Meaning(line) ==
  LET isValue == IsValueIn(line)
      Read == {i \in DOMAIN line :
                 /\ ~isValue[i]
                 /\ \A j \in 1..i : isValue[j] \/ line[j].kind \in {"long", "short"}}
      ValueOf(i) == IF line[i].value # <<>> THEN line[i].value[1] ELSE line[i + 1]
      Bad(i) == \/ line[i].kind = "short"
                \/ line[i].opt \notin Options
                \/ /\ line[i].opt \in TakesValue
                   /\ \/ line[i].value = <<>> /\ i = Len(line)
                      \/ Refused(line[i].opt, ValueOf(i))
      Ending == {i \in Read : Bad(i) \/ line[i].opt \in Exits}
      Last(opts, default, V(_)) ==
        LET uses == {i \in Read : line[i].opt \in opts}
        IN  IF uses = {} THEN default ELSE V(Max(uses))
  IN  IF Ending # {}
        THEN [result |-> IF Bad(Min(Ending)) THEN "failed" ELSE "exited"]
        ELSE [result |-> "ok",
              out |-> [config_file |-> Last({"config"}, NoWord, ValueOf),
                       log_level |-> Last({"log-level"}, Plain("info"), ValueOf),
                       bind_endpoint |-> Last({"bind"}, NoWord, ValueOf),
                       daemonize |-> Last({"daemon", "foreground"}, FALSE,
                                          LAMBDA i : line[i].opt = "daemon"),
                       simulate_workers_count |->
                         Last({"simulate"}, 0, LAMBDA i : atoi(ValueOf(i)))]]

(* Safety, vom_master_cli_parse over compat.h's getopt_long: a line without *)
(* short options is understood as it is meant, the last use of an option    *)
(* wins, a value may look like an option, and anything refused is refused   *)
(* wherever it stands.  And vom_cli_commands_parse accepts exactly the      *)
(* lines of the usage text.                                                 *)
LinesUnderstood ==
  /\ (result # "parsing"
        /\ \A i \in DOMAIN argv : argv[i].kind = "short" => argv[i] = MinusOne) =>
       /\ result = Meaning(argv).result
       /\ result = "ok" => out = Meaning(argv).out
  /\ LET cmd == vom_cli_commands_parse(argv)
         verbAt == CHOOSE i \in {1, 2} : i = 2 <=> argv # <<>> /\ Format(argv) # "HUMAN"
     IN  cmd.rc = "SUCCESS" <=>
           /\ verbAt \in DOMAIN argv
           /\ \/ argv[verbAt] = Plain("status")
              \/ /\ argv[verbAt] \in {Plain(v) : v \in WithArgument}
                 /\ verbAt + 1 \in DOMAIN argv
                 /\ cmd.arg = argv[verbAt + 1]
=============================================================================
