-------------------------- MODULE MCConfiguredLaunch --------------------------
(***************************************************************************)
(* ConfiguredLaunch for TLC: documents that leave out sections and keys,   *)
(* required ones too, that name what does not exist, that have a null      *)
(* where a text or a list is read, and that have enough arguments for a    *)
(* vector to grow twice.  The int of frame_rate may be negative.           *)
(***************************************************************************)
EXTENDS ConfiguredLaunch

Host == [remote_host |-> "desk"]
Tuned ==
  [remote_host |-> "desk", remote_port |-> 47989, ssh_user |-> "ann",
   ssh_key_path |-> "/key", compression |-> "none", video_codec |-> "av1",
   bandwidth_limit |-> 5]

Numbered(n) == [i \in 1 .. n |-> IF i % 2 = 1 THEN "-a" ELSE "file"]
Editor == [executable |-> "/bin/editor"]
Player(n) ==
  [executable |-> "/bin/mpv", args |-> Numbered(n), env |-> <<"A=1", "B=2">>,
   working_directory |-> "/srv"]

LowLatency == [profile |-> "low-latency"]
Slow == [profile |-> "fastest", frame_rate |-> 0]
Negative == [frame_rate |-> -1, target_latency_ms |-> -MaxInt - 1]

Lens(type, fallback) == [type |-> type, fallback |-> fallback]

MCDocuments ==
  {[application |-> Editor],
   [connection |-> [ssh_user |-> "ann"], application |-> Editor],
   [connection |-> Tuned],
   [connection |-> Tuned, application |-> [args |-> Numbered(1)]],
   [connection |-> Host, application |-> Editor],
   [connection |-> [remote_host |-> NULL]],
   [connection |-> Host, application |-> [executable |-> "/bin/mpv", env |-> NULL]],
   [connection |-> Host,
    application |-> [executable |-> "/bin/mpv", args |-> <<"-a", NULL>>]],
   [connection |-> Host, application |-> Editor,
    performance |-> [profile |-> NULL]],
   [connection |-> Host, application |-> Editor,
    observability |-> [log_level |-> NULL]],
   [connection |-> Host, application |-> Editor, performance |-> Negative,
    lens |-> [fallback |-> <<"sunshine", NULL>>]],
   [connection |-> Host, application |-> [executable |-> "/bin/mpv"],
    performance |-> Negative],
   [connection |-> Host, application |-> Player(4), performance |-> LowLatency],
   [connection |-> Tuned, application |-> Player(2), performance |-> Slow,
    observability |-> [metrics_file |-> "/log", log_level |-> "loud"],
    lens |-> Lens("auto", <<"moonlight", "vnc">>)],
   [connection |-> Host, application |-> Player(16),
    observability |-> [enable_metrics |-> FALSE],
    lens |-> Lens("moonlight", <<>>)],
   [connection |-> Tuned,
    application |-> [executable |-> "/bin/editor", args |-> <<>>, env |-> <<>>],
    performance |-> LowLatency, lens |-> [fallback |-> <<"sunshine">>]]}

===============================================================================
