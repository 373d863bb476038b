--------------------------- MODULE ConfiguredLaunch ---------------------------
(***************************************************************************)
(* From the configuration to the process image: the argument vector that   *)
(* build_waypipe_argv, build_sunshine_argv and build_moonlight_argv make   *)
(* of a config, its growth, and what the forked child passes to execvp().  *)
(* That fork() and execvp() may fail is LensProcess; which lens a session  *)
(* tries after which is TelescopeSession.                                  *)
(*                                                                         *)
(* A word is a tuple of the texts it is made of, of none when its strdup() *)
(* failed: Missing stands for the NULL in its slot.  A vector that cannot  *)
(* be allocated changes nothing.                                           *)
(***************************************************************************)
EXTENDS Configuration, SequencesExt

CONSTANTS
  InitialSlots,     (* max_args at first, 32 in the code                *)
  MediaApps         (* executables whose name tells a video or a game   *)

ASSUME SlotsAssumption == InitialSlots \in Nat /\ InitialSlots >= 12

VARIABLES
  argv,             (* the vector under construction, or NoVector          *)
  launched          (* the latest image execvp() got since the config last *)
                      (* changed, and whether its chdir() failed, or NULL  *)
                      (* (history)                                         *)

vars == <<configVars, argv, launched>>

(***************************************************************************)
(* The words before the arguments of the application.  Each is copied with *)
(* strdup(), whose result is not looked at, or formatted into a block of   *)
(* malloc(), whose result is.  sources: the strings of the config that are *)
(* read for it.                                                            *)
(***************************************************************************)
Literal(text) == [word |-> <<text>>, sources |-> {}, checked |-> FALSE]
Copy(text) == [word |-> <<text>>, sources |-> {text}, checked |-> FALSE]
Format(texts, sources) == [word |-> texts, sources |-> sources, checked |-> TRUE]
\* Formatted into a local array, copied like any other word.
Decimal(of, n) == [word |-> <<of, n>>, sources |-> {}, checked |-> FALSE]
Option(text, absent, words) == IF text \in absent THEN <<>> ELSE words

WaypipeWords(c) ==
  LET conn == c.connection IN
  <<Literal("waypipe"), Literal("client")>>
    \o Option(conn.compression, {NULL, "none"},
              <<Format(<<"--compress=", conn.compression>>, {})>>)
    \o Option(conn.video_codec, {NULL},
              <<Format(<<"--video-codec=", conn.video_codec>>, {})>>)
    \o <<Literal("--ssh"),
         Format(<<conn.ssh_user, "@", conn.remote_host>>,
                {conn.ssh_user, conn.remote_host}),
         Literal("--"), Copy(c.application.executable)>>

StreamWords(c, program, host, defaultPort, app) ==
  LET conn == c.connection
      rate == c.performance.frame_rate
  IN
  <<Literal(program)>>
    \o Option(conn.remote_host, {NULL}, <<Literal(host), Copy(conn.remote_host)>>)
    \o Option(conn.remote_port, {0, defaultPort},
              <<Literal("--port"), Decimal("port", conn.remote_port)>>)
    \o Option(rate, {0}, <<Literal("--fps"), Decimal("fps", rate)>>)
    \o Option(conn.video_codec, {NULL},
              <<Literal("--codec"), Copy(conn.video_codec)>>)
    \o Option(c.application.executable, {NULL},
              app \o <<Copy(c.application.executable)>>)

SunshineWords(c) == StreamWords(c, "sunshine", "--host", 47989, <<Literal("--app")>>)
MoonlightWords(c) == StreamWords(c, "moonlight", "stream", 47984, <<>>)

CommandWords(lens, c) ==
  CASE lens = "waypipe" -> WaypipeWords(c)
    [] lens = "sunshine" -> SunshineWords(c)
    [] lens = "moonlight" -> MoonlightWords(c)

Arguments(lens, c) ==
  IF \/ c.application.args = NULL
     \/ lens # "waypipe" /\ c.application.executable = NULL
  THEN <<>> ELSE c.application.args

(***************************************************************************)
(* The lenses telescope_session_start may try with this config.            *)
(***************************************************************************)
Candidates(c) ==
  {"waypipe",
   SelectLens([type |-> c.lens.type,
               application |-> IF c.application.executable = NULL THEN "none"
                               ELSE IF c.application.executable \in MediaApps
                               THEN "media" ELSE "general"])}
    \cup (IF c.lens.fallback = NULL THEN {} ELSE Elements(c.lens.fallback))

(***************************************************************************)
(* Building the vector.                                                    *)
(***************************************************************************)
\* A builder that has not begun.
NoVector == [lens |-> NULL, slots |-> 0, done |-> 0, words |-> <<>>]
Missing == <<>>
Loader == UNCHANGED <<pc, document, config, loads, lost, applied>>
Blocks(words) == 1 + Cardinality({i \in DOMAIN words : words[i] # Missing})

LaunchCrash(failures) ==
  /\ pc' = "crashed"
  /\ shortages' = shortages + failures
  /\ UNCHANGED <<document, config, live, loads, lost, applied, argv, launched>>

(* The part of a builder up to its loop.  The first word that cannot be    *)
(* made stops it: reading a NULL source is a crash, and a failed malloc()  *)
(* frees what there is and returns -ENOMEM.                                *)
BeginArgv(lens) ==
  LET words == CommandWords(lens, config)
      unreadable(i) == NULL \in words[i].sources
  IN
  /\ pc = "ready" /\ argv = NoVector
  /\ lens \in Candidates(config)
  /\ \E failed \in Shortfalls(DOMAIN words) :
       LET stops == {i \in DOMAIN words :
                       unreadable(i) \/ (words[i].checked /\ i \in failed)}
           first == {i \in stops : \A j \in stops : i <= j}
       IN
       \/ \E i \in first : unreadable(i) /\ LaunchCrash(Cardinality(failed))
       \/ /\ \E i \in first : ~unreadable(i)
          /\ shortages' = shortages + Cardinality(failed)
          /\ Loader /\ UNCHANGED <<live, argv, launched>>
       \/ /\ stops = {}
          /\ argv' = [lens |-> lens, slots |-> InitialSlots, done |-> 0,
                      words |-> [i \in DOMAIN words |->
                                   IF i \in failed THEN Missing ELSE words[i].word]]
          /\ shortages' = shortages + Cardinality(failed)
          /\ live' = live + Blocks(argv'.words)
          /\ Loader /\ UNCHANGED launched

\* Faulty: the slot of the terminating NULL is given away.
FullLate == Len(argv.words) >= argv.slots

Full == Len(argv.words) >= argv.slots - 1

(* One turn of the loop over app->args. *)
AppendArg ==
  LET args == Arguments(argv.lens, config)
      arg == args[argv.done + 1]
  IN
  /\ pc = "ready" /\ argv # NoVector /\ argv.done < Len(args)
  /\ \/ arg = NULL /\ LaunchCrash(0)
     \/ /\ arg # NULL
        /\ \E failed \in Shortfalls({"strdup"}) :
             /\ argv' =
                  [argv EXCEPT
                     !.slots = IF Full THEN 2 * @ ELSE @,
                     !.words = Append(@, IF failed = {} THEN <<arg>> ELSE Missing),
                     !.done = @ + 1]
             /\ Allocated({"strdup"}, failed)
        /\ Loader /\ UNCHANGED launched

(* realloc() fails: goto error. *)
GrowthFails ==
  /\ pc = "ready" /\ argv # NoVector
  /\ argv.done < Len(Arguments(argv.lens, config)) /\ Full
  /\ shortages < MaxShortages
  /\ shortages' = shortages + 1
  /\ live' = live - Blocks(argv.words)
  /\ argv' = NoVector
  /\ Loader /\ UNCHANGED launched

(* argv[argc] = NULL, and the forked child runs execvp(); the parent frees *)
(* the vector.  The program sees the words before the first NULL.  The     *)
(* child ignores that putenv() gets no memory for an entry, and that       *)
(* chdir() fails: it stays in the directory of its parent, NULL.           *)
Seen(words) == SelectInSeq(words, LAMBDA word : word = Missing)

Exec ==
  LET words == argv.words
      app == config.application
      entries == IF app.env = NULL THEN {} ELSE {"env"} \X DOMAIN app.env
  IN
  /\ pc = "ready" /\ argv # NoVector
  /\ argv.done = Len(Arguments(argv.lens, config))
  /\ \E failed \in Shortfalls(entries), stays \in BOOLEAN :
       /\ stays => app.working_directory # NULL
       /\ launched' =
            [lens |-> argv.lens,
             words |-> IF Seen(words) = 0 THEN words
                       ELSE SubSeq(words, 1, Seen(words) - 1),
             env |-> Copied("env", app.env, failed),
             directory |-> IF stays THEN NULL ELSE app.working_directory,
             stays |-> stays]
       /\ shortages' = shortages + Cardinality(failed)
  /\ live' = live - Blocks(words)
  /\ argv' = NoVector
  /\ Loader

LaunchInit == Init /\ argv = NoVector /\ launched = NULL

Next ==
  \/ argv = NoVector /\ ConfigNext /\ argv' = NoVector /\ launched' = NULL
  \/ \E lens \in LensTypes \ {"auto"} : BeginArgv(lens)
  \/ AppendArg \/ GrowthFails
  \/ Exec

Spec == LaunchInit /\ [][Next]_vars

(***************************************************************************)
(* Properties.  Those of the process image compare it with the document    *)
(* and with what the documentation says of profiles.                       *)
(***************************************************************************)

(* No document and no sequence of presets leaves a value outside its type  *)
(* in a configuration that was loaded: a name that does not exist becomes  *)
(* a default (schema.c:126-136, 197-209, 223-235, 246-252).                *)
TypeOK ==
  /\ pc \in {"none", "connection", "application", "performance",
             "observability", "lens", "ready", "crashed"}
  /\ live \in Nat /\ lost \in 0 .. live
  /\ pc = "ready" =>
       /\ config.connection.remote_port \in Ports
       /\ config.performance.profile \in Profiles
       /\ config.observability.log_level \in LogLevels
       /\ config.lens.type \in LensTypes
       /\ Candidates(config) \subseteq {"waypipe", "sunshine", "moonlight"}
  /\ argv # NoVector =>
       /\ pc \in {"ready", "crashed"}
       /\ argv.lens \in Candidates(config)
       /\ argv.done \in 0 .. Len(Arguments(argv.lens, config))

(* The program crashes in the loader or in a builder only after an         *)
(* allocation failed, or for a JSON null where the loader wants a text, or *)
(* no list where it wants one (schema.c:22, 74, 89): any other document,   *)
(* whatever it leaves out and of whatever type its values are, gives each  *)
(* builder the strings it reads without looking (lens_waypipe.c:93-102).   *)
CrashOnlyIfShortOrNull ==
  pc = "crashed" =>
    \/ shortages > 0
    \/ \E name \in DOMAIN document : ~Readable(document[name])

(* Once the configuration is freed, the only blocks left are those of      *)
(* documents that were rejected halfway: telescope_config_free() frees     *)
(* whatever the loader, the presets and failed allocations made of the     *)
(* configuration, each block once, and no builder keeps a word.            *)
NoLeakUnlessRejected == pc = "none" => live = lost

(* A builder never writes outside its vector: between two writes there is  *)
(* room for another word or the terminating NULL (lens_waypipe.c:104-116). *)
ArgvInBounds == argv # NoVector => Len(argv.words) < argv.slots

(* docs/ARCHITECTURE.md:197-224 *)
DocProfile(p) ==
  CASE p = "low-latency" -> [rate |-> 120, compression |-> "lz4", codec |-> "h264"]
    [] p = "balanced" -> [rate |-> 60, compression |-> "lz4", codec |-> "h264"]
    [] p = "high-quality" ->
         [rate |-> 60, compression |-> "zstd", codec |-> "h265"]
    [] p = "bandwidth-constrained" ->
         [rate |-> 30, compression |-> "zstd", codec |-> "h265"]

(* What a document sets, with the defaults of schemas/waypipe-schema.json. *)
DocSettings ==
  [rate |-> Get(Section("performance"), "frame_rate", 60),
   compression |-> Get(Section("connection"), "compression", "lz4"),
   codec |-> Get(Section("connection"), "video_codec", "h264")]

Pair(words, option, value) ==
  \E i \in 1 .. Len(words) - 1 : words[i] = option /\ words[i + 1] = value
\* Options of two texts: an argument or a name that reads like one is a single text.
Compressed(words) == {w \in Elements(words) : Len(w) = 2 /\ w[1] = "--compress="}

(* Unless memory ran short, the transport program is executed with the     *)
(* settings of the profile that was applied last, or else the document's;  *)
(* with its executable and all its arguments, in order, at the end; in its *)
(* environment; and in its directory, but for a chdir() that failed, which *)
(* leaves it in that of the parent (lens_waypipe.c:187-191).  Nothing is   *)
(* said of a frame rate that is not positive.  It does not matter what     *)
(* configurations, profiles and attempts came before.                      *)
LaunchAsConfigured ==
  launched # NULL /\ shortages = 0 =>
    LET app == document.application
        conn == document.connection
        args == Get(app, "args", <<>>)
        settings == IF applied = NULL THEN DocSettings ELSE DocProfile(applied)
        words == launched.words
    IN
    /\ IsSuffix(<<<<app.executable>>>> \o [i \in DOMAIN args |-> <<args[i]>>], words)
    /\ launched.directory =
         IF launched.stays THEN NULL ELSE Get(app, "working_directory", NULL)
    /\ IF Get(app, "env", <<>>) = <<>> THEN launched.env = NULL
       ELSE launched.env = app.env
    /\ launched.lens = "waypipe" =>
         /\ Compressed(words) = IF settings.compression = "none" THEN {}
                                ELSE {<<"--compress=", settings.compression>>}
         /\ <<"--video-codec=", settings.codec>> \in Elements(words)
         /\ Pair(words, <<"--ssh">>,
                 <<Get(conn, "ssh_user", "root"), "@", conn.remote_host>>)
    /\ launched.lens # "waypipe" =>
         /\ Pair(words, <<"--codec">>, <<settings.codec>>)
         /\ settings.rate > 0 => Pair(words, <<"--fps">>, <<"fps", settings.rate>>)

===============================================================================
