---------------------------- MODULE Configuration ----------------------------
(***************************************************************************)
(* A telescope_config from its JSON document to its release: core/schema.c *)
(* with json-c, and the presets of core/profiles.c.                        *)
(*                                                                         *)
(* Nobody checks a document before the load.  It is modelled by what       *)
(* json-c's getters return for it: it maps the sections it has to those    *)
(* keys the loader reads that they have, and a key to an int, a boolean, a *)
(* text or a list of texts, whatever type the value has in the document.   *)
(* NULL is the text of a JSON null, and the list of a value that is no     *)
(* list.  env is the sequence of its NAME=value entries.                   *)
(*                                                                         *)
(* A string is a value that is NULL when strdup() failed: the load does    *)
(* not look.  Reading NULL and writing through a NULL array end the        *)
(* program: pc = "crashed".                                                *)
(*                                                                         *)
(* A load whose document cannot be read, or that gets no memory for the    *)
(* struct itself, changes nothing.                                         *)
(***************************************************************************)
EXTENDS LensSelection, Integers, FiniteSets

CONSTANTS
  Documents,        (* what the configuration file may say              *)
  NULL,
  MaxInt,           (* INT_MAX, 2^31 - 1 in the code                    *)
  MaxLoads,         (* bound on loads                                   *)
  MaxShortages      (* bound on allocations that fail                   *)

VARIABLES
  pc,               (* "none", the section parsed next, "ready" or "crashed" *)
  document,         (* what json_object_from_file() returned                 *)
  config,           (* struct telescope_config, NULL when there is none      *)
  live,             (* heap blocks allocated and not freed                   *)
  \* history, for the bounds and the properties only
  loads, shortages, (* loads begun, allocations that failed                  *)
  lost,             (* blocks that rejected loads left behind                *)
  applied           (* the profile applied last to this config, or NULL      *)

configVars == <<pc, document, config, live, loads, shortages, lost, applied>>

Profiles ==
  {"low-latency", "balanced", "high-quality", "bandwidth-constrained"}
LogLevels == {"error", "warn", "info", "debug", "trace"}

Ports == 0 .. 65535
Int32 == -(MaxInt + 1) .. MaxInt
\* What an int becomes in a uint32_t field.
Unsigned(n) == n % (2 * (MaxInt + 1))

Has(object, key) == key \in DOMAIN object
Get(object, key, default) ==
  IF Has(object, key) THEN object[key] ELSE default
OneOf(values, value, default) == IF value \in values THEN value ELSE default

(* The optional sections default to what an empty one gives. *)
Empty == [key \in {} |-> NULL]
Section(name) == Get(document, name, Empty)

(* What the getter that the loader calls for a key may return.             *)
Lists == {"args", "env", "fallback"}
Returned(key) ==
  CASE key \in {"remote_port", "bandwidth_limit", "target_latency_ms", "frame_rate",
                "prediction_window_ms", "metrics_interval_ms"} -> Int32
    [] key \in {"enable_prediction", "enable_scroll_smoothing", "enable_metrics"}
         -> BOOLEAN
    [] key \in Lists -> Seq(STRING \cup {NULL}) \cup {NULL}
    [] OTHER -> STRING \cup {NULL}

Readable(object) ==
  \A key \in DOMAIN object :
    /\ object[key] # NULL
    /\ key \in Lists => \A i \in DOMAIN object[key] : object[key][i] # NULL

ASSUME IntAssumption == MaxInt \in Nat /\ MaxInt > 65535

(* NULL is no string, number or array: neither one of a document nor one   *)
(* that the code sets.                                                     *)
ASSUME NullAssumption ==
  /\ NULL \notin STRING \cup Int \cup BOOLEAN \cup Seq(STRING \cup {NULL})
  /\ NULL \notin Seq(LensTypes)
  /\ NULL \notin {"root", "lz4", "zstd", "h264", "h265"} \cup Profiles

ASSUME DocumentAssumption ==
  \A d \in Documents : \A name \in DOMAIN d : \A key \in DOMAIN d[name] :
    d[name][key] \in Returned(key)

(***************************************************************************)
(* Allocation.  <<key, 0>> is the block of a string or of an array, and    *)
(* <<key, i>> that of the array's i-th element.  One of the wanted blocks  *)
(* may fail in a step.                                                     *)
(***************************************************************************)
Strings(keys) == keys \X {0}
Array(key, value) ==
  IF value = NULL THEN {} ELSE {<<key, i>> : i \in 0 .. Len(value)}

Shortfalls(wanted) ==
  {{}} \cup (IF shortages < MaxShortages THEN {{block} : block \in wanted} ELSE {})

Allocated(wanted, failed) ==
  /\ shortages' = shortages + Cardinality(failed)
  /\ live' = live + Cardinality(wanted \ failed)

Dup(key, value, failed) == IF <<key, 0>> \in failed THEN NULL ELSE value
Text(object, key, default, failed) ==
  Dup(key, Get(object, key, default), failed)
Copied(key, value, failed) ==
  IF value = NULL THEN NULL
  ELSE [i \in DOMAIN value |-> IF <<key, i>> \in failed THEN NULL ELSE value[i]]

Crash(failed) ==
  /\ pc' = "crashed"
  /\ shortages' = shortages + Cardinality(failed)
  /\ UNCHANGED <<document, config, live, loads, lost, applied>>

(* calloc() of the struct: no string, no array. *)
Zero ==
  [connection |->
     [remote_host |-> NULL, remote_port |-> 0, ssh_user |-> NULL,
      ssh_key_path |-> NULL, compression |-> NULL, video_codec |-> NULL,
      bandwidth_limit |-> 0],
   application |->
     [executable |-> NULL, args |-> NULL, env |-> NULL,
      working_directory |-> NULL],
   performance |->
     [profile |-> "low-latency", target_latency |-> 0, frame_rate |-> 0,
      prediction |-> FALSE, window |-> 0, smoothing |-> FALSE],
   observability |->
     [metrics |-> FALSE, interval |-> 0, metrics_file |-> NULL,
      log_level |-> "error"],
   lens |-> [type |-> "waypipe", fallback |-> NULL]]

Init ==
  /\ pc = "none"
  /\ document = Empty
  /\ config = NULL
  /\ live = 0 /\ loads = 0 /\ shortages = 0 /\ lost = 0
  /\ applied = NULL

(***************************************************************************)
(* telescope_config_load, one parse function after the other.              *)
(***************************************************************************)
BeginLoad(d) ==
  /\ pc = "none" /\ loads < MaxLoads
  /\ pc' = "connection"
  /\ document' = d
  /\ config' = Zero
  /\ live' = live + 1
  /\ loads' = loads + 1
  /\ applied' = NULL
  /\ UNCHANGED <<shortages, lost>>

RequiredKey == [connection |-> "remote_host", application |-> "executable"]
Complete(name) == Has(document, name) /\ Has(document[name], RequiredKey[name])

(* strdup(), strcmp() or strlen() of a NULL text, or a walk over a value   *)
(* that is no list.  What of the section was read before does not matter.  *)
ReadNull ==
  /\ pc \in {"connection", "application", "performance", "observability", "lens"}
  /\ pc \in DOMAIN RequiredKey => Complete(pc)
  /\ ~Readable(Section(pc))
  /\ Crash({})

Parsed(name, section, wanted, failed, next) ==
  /\ config' = [config EXCEPT ![name] = section]
  /\ Allocated(wanted, failed)
  /\ pc' = next
  /\ UNCHANGED <<document, loads, lost, applied>>

\* Faulty: no default for the user.
ParseConnectionNoUser ==
  LET object == Section("connection")
      wanted == Strings({"remote_host", "ssh_user", "compression", "video_codec",
                         "ssh_key_path"} \cap DOMAIN object)
  IN
  /\ pc = "connection" /\ Complete("connection") /\ Readable(object)
  /\ \E failed \in Shortfalls(wanted) :
       Parsed("connection",
         [remote_host |-> Text(object, "remote_host", NULL, failed),
          remote_port |-> Get(object, "remote_port", 22) % 65536,
          ssh_user |-> Text(object, "ssh_user", NULL, failed),
          ssh_key_path |-> Text(object, "ssh_key_path", NULL, failed),
          compression |-> Text(object, "compression", NULL, failed),
          video_codec |-> Text(object, "video_codec", NULL, failed),
          bandwidth_limit |-> Unsigned(Get(object, "bandwidth_limit", 0))],
         wanted, failed, "application")

ParseConnection ==
  LET object == Section("connection")
      wanted ==
        Strings({"remote_host", "ssh_user", "compression", "video_codec"}
                  \cup ({"ssh_key_path"} \cap DOMAIN object))
  IN
  /\ pc = "connection" /\ Complete("connection") /\ Readable(object)
  /\ \E failed \in Shortfalls(wanted) :
       Parsed("connection",
         [remote_host |-> Text(object, "remote_host", NULL, failed),
          remote_port |-> Get(object, "remote_port", 22) % 65536,
          ssh_user |-> Text(object, "ssh_user", "root", failed),
          ssh_key_path |-> Text(object, "ssh_key_path", NULL, failed),
          compression |-> Text(object, "compression", "lz4", failed),
          video_codec |-> Text(object, "video_codec", "h264", failed),
          bandwidth_limit |-> Unsigned(Get(object, "bandwidth_limit", 0))],
         wanted, failed, "application")

ParseApplication ==
  LET object == Section("application")
      args == Get(object, "args", NULL)
      env == IF Get(object, "env", <<>>) = <<>> THEN NULL ELSE object["env"]
      wanted ==
        Strings({"executable", "working_directory"} \cap DOMAIN object)
          \cup Array("args", args) \cup Array("env", env)
  IN
  /\ pc = "application" /\ Complete("application") /\ Readable(object)
  /\ \E failed \in Shortfalls(wanted) :
       \* The arrays and the env entries are written without a check.
       \/ /\ failed \cap ({<<"args", 0>>} \cup Array("env", env)) # {}
          /\ Crash(failed)
       \/ /\ failed \cap ({<<"args", 0>>} \cup Array("env", env)) = {}
          /\ Parsed("application",
               [executable |-> Text(object, "executable", NULL, failed),
                args |-> Copied("args", args, failed),
                env |-> env,
                working_directory |->
                  Text(object, "working_directory", NULL, failed)],
               wanted, failed, "performance")

(* return -EINVAL: free(config) alone, not what its strings point to. *)
Reject ==
  /\ pc \in DOMAIN RequiredKey /\ ~Complete(pc)
  /\ pc' = "none"
  /\ config' = NULL
  /\ live' = live - 1
  /\ lost' = lost + Cardinality(
               {key \in DOMAIN config.connection \ {"remote_port", "bandwidth_limit"} :
                  config.connection[key] # NULL})
  /\ UNCHANGED <<document, loads, shortages, applied>>

(* The profile is stored; its preset is not applied. *)
ParsePerformance ==
  LET object == Section("performance") IN
  /\ pc = "performance" /\ Readable(object)
  /\ Parsed("performance",
       [profile |-> OneOf(Profiles, Get(object, "profile", "balanced"), "balanced"),
        target_latency |-> Unsigned(Get(object, "target_latency_ms", 50)),
        frame_rate |-> Unsigned(Get(object, "frame_rate", 60)),
        prediction |-> Get(object, "enable_prediction", TRUE),
        window |-> Unsigned(Get(object, "prediction_window_ms", 16)),
        smoothing |-> Get(object, "enable_scroll_smoothing", TRUE)],
       {}, {}, "observability")

ParseObservability ==
  LET object == Section("observability")
      wanted == Strings({"metrics_file"} \cap DOMAIN object)
  IN
  /\ pc = "observability" /\ Readable(object)
  /\ \E failed \in Shortfalls(wanted) :
       Parsed("observability",
         [metrics |-> Get(object, "enable_metrics", TRUE),
          interval |-> Unsigned(Get(object, "metrics_interval_ms", 1000)),
          metrics_file |-> Text(object, "metrics_file", NULL, failed),
          log_level |-> OneOf(LogLevels, Get(object, "log_level", "info"), "info")],
         wanted, failed, "lens")

\* Faulty: a name that no lens has is stored.
FallbackUnchecked(names) == names

(* An unknown fallback keeps the zero of calloc(), which is waypipe. *)
Fallback(names) ==
  [i \in DOMAIN names |-> OneOf({"sunshine", "moonlight"}, names[i], "waypipe")]

ParseLens ==
  LET object == Section("lens")
      names == Get(object, "fallback", NULL)
      wanted == Strings({"fallback"} \cap DOMAIN object)
  IN
  /\ pc = "lens" /\ Readable(object)
  /\ \E failed \in Shortfalls(wanted) :
       \/ failed # {} /\ names # <<>> /\ Crash(failed)
       \/ /\ failed = {} \/ names = <<>>
          /\ Parsed("lens",
               [type |-> OneOf(LensTypes, Get(object, "type", "auto"), "auto"),
                fallback |-> IF names = NULL \/ failed # {} THEN NULL
                             ELSE Fallback(names)],
               wanted, failed, "ready")

(***************************************************************************)
(* telescope_config_apply_profile.                                         *)
(***************************************************************************)
Preset(p) ==
  CASE p = "low-latency" ->
         [latency |-> 16, rate |-> 120, prediction |-> TRUE, window |-> 16,
          smoothing |-> TRUE, compression |-> "lz4", codec |-> "h264", limit |-> 0]
    [] p = "balanced" ->
         [latency |-> 50, rate |-> 60, prediction |-> TRUE, window |-> 16,
          smoothing |-> TRUE, compression |-> "lz4", codec |-> "h264", limit |-> 0]
    [] p = "high-quality" ->
         [latency |-> 100, rate |-> 60, prediction |-> FALSE, window |-> 0,
          smoothing |-> FALSE, compression |-> "zstd", codec |-> "h265", limit |-> 0]
    [] p = "bandwidth-constrained" ->
         [latency |-> 100, rate |-> 30, prediction |-> TRUE, window |-> 33,
          smoothing |-> TRUE, compression |-> "zstd", codec |-> "h265", limit |-> 10]

Replaced == {"compression", "video_codec"}

\* Faulty: a codec that is set stays.
ApplyProfileKeepsCodec(p) ==
  /\ pc = "ready"
  /\ \E failed \in Shortfalls(Strings(Replaced)) :
       /\ config' =
            [config EXCEPT
               !.performance =
                 [profile |-> p, target_latency |-> Preset(p).latency,
                  frame_rate |-> Preset(p).rate,
                  prediction |-> Preset(p).prediction,
                  window |-> Preset(p).window,
                  smoothing |-> Preset(p).smoothing],
               !.connection.compression =
                 Dup("compression", Preset(p).compression, failed),
               !.connection.video_codec =
                 IF @ = NULL THEN Dup("video_codec", Preset(p).codec, failed) ELSE @,
               !.connection.bandwidth_limit = Preset(p).limit]
       /\ shortages' = shortages + Cardinality(failed)
  /\ applied' = p
  /\ UNCHANGED <<pc, document, live, loads, lost>>

ApplyProfile(p) ==
  /\ pc = "ready"
  /\ \E failed \in Shortfalls(Strings(Replaced)) :
       /\ config' =
            [config EXCEPT
               !.performance =
                 [profile |-> p, target_latency |-> Preset(p).latency,
                  frame_rate |-> Preset(p).rate,
                  prediction |-> Preset(p).prediction,
                  window |-> Preset(p).window,
                  smoothing |-> Preset(p).smoothing],
               !.connection.compression =
                 Dup("compression", Preset(p).compression, failed),
               !.connection.video_codec =
                 Dup("video_codec", Preset(p).codec, failed),
               !.connection.bandwidth_limit = Preset(p).limit]
       /\ live' = live
            - Cardinality({key \in Replaced : config.connection[key] # NULL})
            + Cardinality(Strings(Replaced) \ failed)
       /\ shortages' = shortages + Cardinality(failed)
  /\ applied' = p
  /\ UNCHANGED <<pc, document, loads, lost>>

(***************************************************************************)
(* telescope_config_free.                                                  *)
(***************************************************************************)
Freed(pointers) == Cardinality({k \in DOMAIN pointers : pointers[k] # NULL})
FreedArray(array) == IF array = NULL THEN 0 ELSE Freed(array) + 1

\* Faulty: the environment is forgotten.
FreeCountForgetsEnv(c) ==
  Freed(<<c.connection.remote_host, c.connection.ssh_user,
          c.connection.ssh_key_path, c.connection.compression,
          c.connection.video_codec>>)
    + Freed(<<c.application.executable, c.application.working_directory>>)
    + FreedArray(c.application.args)
    + Freed(<<c.observability.metrics_file>>)
    + Freed(<<c.lens.fallback>>)
    + 1

FreeCount(c) ==
  Freed(<<c.connection.remote_host, c.connection.ssh_user,
          c.connection.ssh_key_path, c.connection.compression,
          c.connection.video_codec>>)
    + Freed(<<c.application.executable, c.application.working_directory>>)
    + FreedArray(c.application.args) + FreedArray(c.application.env)
    + Freed(<<c.observability.metrics_file>>)
    + Freed(<<c.lens.fallback>>)
    + 1

FreeConfig ==
  /\ pc = "ready"
  /\ pc' = "none"
  /\ config' = NULL
  /\ live' = live - FreeCount(config)
  /\ UNCHANGED <<document, loads, shortages, lost, applied>>

ConfigNext ==
  \/ \E d \in Documents : BeginLoad(d)
  \/ ParseConnection \/ ParseApplication \/ Reject \/ ReadNull
  \/ ParsePerformance \/ ParseObservability \/ ParseLens
  \/ \E p \in Profiles : ApplyProfile(p)
  \/ FreeConfig

=============================================================================
