----------------------------- MODULE ConfigFile -----------------------------
(***************************************************************************)
(* The configuration file (common/src/config.c).  A line is what           *)
(* strip_comment and trim_whitespace leave of it: nothing, a section       *)
(* header, a header whose bracket is not closed, key = value, or anything  *)
(* else.  Reading a line is a step of vom_config_load's loop.              *)
(***************************************************************************)
EXTENDS Integers, Sequences, FiniteSetsExt

CONSTANTS Section, Key, Val, MaxLines     \* names and values tried, file length

VARIABLES file, current_section, config
vars == <<file, current_section, config>>

Line == [kind : {"blank", "unclosed", "text"}]
        \cup [kind : {"header"}, section : Section]
        \cup [kind : {"entry"}, key : Key, val : Val]

(* The member an entry is for, by its section and key. *)
Member == [cluster_name |-> <<"cluster", "name">>,
           master_endpoint |-> <<"master", "endpoint">>,
           worker_id |-> <<"worker", "id">>,
           heartbeat_interval_sec |-> <<"worker", "heartbeat_interval">>,
           advertised_capabilities |-> <<"worker", "capabilities">>,
           log_level |-> <<"logging", "level">>]

(* strtoul: text that does not begin with a number gives 0. *)
strtoul(val) == IF val = "7" THEN 7 ELSE 0
Stored(m, val) == IF m = "heartbeat_interval_sec" THEN strtoul(val) ELSE val

set_config_entry(c, section, key, val) ==
  [m \in DOMAIN Member |-> IF Member[m] = <<section, key>> THEN Stored(m, val) ELSE c[m]]

vom_config_defaults ==
  [cluster_name |-> "vom-default-cluster", master_endpoint |-> "tcp://127.0.0.1:5555",
   worker_id |-> "worker-default", heartbeat_interval_sec |-> 5,
   advertised_capabilities |-> "", log_level |-> "info"]

Init == file = <<>> /\ current_section = "" /\ config = vom_config_defaults

Read(line) ==
  /\ file' = Append(file, line)
  /\ current_section' = IF line.kind = "header" THEN line.section ELSE current_section
  /\ config' = IF line.kind = "entry"
                 THEN set_config_entry(config, current_section, line.key, line.val)
                 ELSE config

Next == Len(file) < MaxLines /\ \E line \in Line : Read(line)
-----------------------------------------------------------------------------
(* Safety, vom_config_load: a member has the value of the last entry for   *)
(* it that stands in its section, which is that of the last closed header  *)
(* above, and its default when there is none.                              *)
LastEntryCounts ==
  LET Above(i) == {j \in 1..(i - 1) : file[j].kind = "header"}
      SectionAt(i) == IF Above(i) = {} THEN "" ELSE file[Max(Above(i))].section
      For(m) == {i \in DOMAIN file : /\ file[i].kind = "entry"
                                     /\ Member[m] = <<SectionAt(i), file[i].key>>}
  IN  \A m \in DOMAIN Member :
        config[m] = IF For(m) = {} THEN vom_config_defaults[m]
                    ELSE Stored(m, file[Max(For(m))].val)
=============================================================================
