---------------------------- MODULE LensSelection ----------------------------
(***************************************************************************)
(* Which transport lens a session tries first: telescope_select_lens of    *)
(* core/profiles.c, over the part of a telescope_config it reads.          *)
(***************************************************************************)
EXTENDS Naturals, Sequences

(* enum telescope_lens_t *)
LensTypes == {"waypipe", "sunshine", "moonlight", "auto"}

(* What the heuristic tells apart: no executable, one whose name contains  *)
(* mpv, vlc, ffmpeg, game or steam, and any other.                         *)
Applications == {"none", "media", "general"}

ConfigType ==
  [type: LensTypes, application: Applications, fallback: Seq(LensTypes),
   metrics: BOOLEAN]

SelectLens(config) ==
  IF config.type # "auto" THEN config.type
  ELSE IF config.application = "media" THEN "sunshine" ELSE "waypipe"

Elements(seq) == {seq[k] : k \in DOMAIN seq}

=============================================================================
