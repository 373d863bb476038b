------------------------ MODULE ConfiguredLaunchProofs ------------------------
(***************************************************************************)
(* Theorems of ConfiguredLaunch, for any documents, any number of          *)
(* arguments and any number of failing allocations:                        *)
(*   - no builder writes outside its argument vector, if that has room for *)
(*     twelve words at first (IInv);                                       *)
(*   - nobody reads a string that is not there unless an allocation failed *)
(*     before (CleanInv);                                                  *)
(*   - every heap block has one owner, so that nothing leaks but what a    *)
(*     rejected document leaves behind, and every value has its type       *)
(*     (BalanceInv);                                                       *)
(*   - the program is executed as the document and the profile ask         *)
(*     (AskedInv, on top of the two before).                               *)
(***************************************************************************)
EXTENDS ConfiguredLaunch, SequenceTheorems, FiniteSetTheorems, TLAPS

(* A sequence of at most n elements, whatever they are. *)
Short(s, n) == \E S : s \in Seq(S) /\ Len(s) <= n

LEMMA ShortTuples ==
  /\ Short(<<>>, 0)
  /\ \A a : Short(<<a>>, 1)
  /\ \A a, b : Short(<<a, b>>, 2)
  /\ \A a, b, c, d : Short(<<a, b, c, d>>, 4)
<1>1. Short(<<>>, 0)
  <2>1. <<>> \in Seq({}) /\ Len(<<>>) <= 0
    OBVIOUS
  <2> QED
    BY <2>1 DEF Short
<1>2. ASSUME NEW a PROVE Short(<<a>>, 1)
  <2>1. <<a>> \in Seq({a}) /\ Len(<<a>>) <= 1
    OBVIOUS
  <2> QED
    BY <2>1 DEF Short
<1>3. ASSUME NEW a, NEW b PROVE Short(<<a, b>>, 2)
  <2>1. <<a, b>> \in Seq({a, b}) /\ Len(<<a, b>>) <= 2
    OBVIOUS
  <2> QED
    BY <2>1 DEF Short
<1>4. ASSUME NEW a, NEW b, NEW c, NEW d PROVE Short(<<a, b, c, d>>, 4)
  <2>1. <<a, b, c, d>> \in Seq({a, b, c, d}) /\ Len(<<a, b, c, d>>) <= 4
    OBVIOUS
  <2> QED
    BY <2>1 DEF Short
<1> QED
  BY <1>1, <1>2, <1>3, <1>4

LEMMA ShortConcat ==
  ASSUME NEW s, NEW t, NEW m \in Nat, NEW n \in Nat, Short(s, m), Short(t, n)
  PROVE  Short(s \o t, m + n)
<1>1. PICK S : s \in Seq(S) /\ Len(s) <= m
  BY DEF Short
<1>2. PICK T : t \in Seq(T) /\ Len(t) <= n
  BY DEF Short
<1>3. s \in Seq(S \cup T) /\ t \in Seq(S \cup T)
  BY <1>1, <1>2
<1>4. s \o t \in Seq(S \cup T) /\ Len(s \o t) = Len(s) + Len(t)
  BY <1>3
<1>5. Len(s) \in Nat /\ Len(t) \in Nat
  BY <1>3
<1> QED
  BY <1>1, <1>2, <1>4, <1>5 DEF Short

LEMMA ShortOption ==
  ASSUME NEW text, NEW absent, NEW words, NEW n \in Nat, Short(words, n)
  PROVE  Short(Option(text, absent, words), n)
<1>1. Short(<<>>, n)
  <2>1. <<>> \in Seq({}) /\ Len(<<>>) <= n
    OBVIOUS
  <2> QED
    BY <2>1 DEF Short
<1> QED
  BY <1>1 DEF Option

(* The words before the arguments: at most eight of waypipe, eleven of     *)
(* sunshine and ten of moonlight.                                          *)
LEMMA WaypipeShort ==
  ASSUME NEW c PROVE Short(WaypipeWords(c), 8)
<1> DEFINE conn == c.connection
           w1 == <<Literal("waypipe"), Literal("client")>>
           w2 == Option(conn.compression, {NULL, "none"},
                        <<Format(<<"--compress=", conn.compression>>, {})>>)
           w3 == Option(conn.video_codec, {NULL},
                        <<Format(<<"--video-codec=", conn.video_codec>>, {})>>)
           w4 == <<Literal("--ssh"),
                   Format(<<conn.ssh_user, "@", conn.remote_host>>,
                          {conn.ssh_user, conn.remote_host}),
                   Literal("--"), Copy(c.application.executable)>>
<1>1. Short(w1, 2) /\ Short(w2, 1) /\ Short(w3, 1) /\ Short(w4, 4)
  BY ShortTuples, ShortOption
<1>2. WaypipeWords(c) = w1 \o w2 \o w3 \o w4
  BY DEF WaypipeWords
<1> HIDE DEF w1, w2, w3, w4
<1>3. Short(w1 \o w2, 3)
  BY <1>1, ShortConcat
<1>4. Short(w1 \o w2 \o w3, 4)
  BY <1>1, <1>3, ShortConcat
<1> QED
  BY <1>1, <1>2, <1>4, ShortConcat

LEMMA StreamShort ==
  ASSUME NEW c, NEW program, NEW host, NEW port, NEW app, NEW n \in Nat, Short(app, n)
  PROVE  Short(StreamWords(c, program, host, port, app), 10 + n)
<1> DEFINE conn == c.connection
           rate == c.performance.frame_rate
           w1 == <<Literal(program)>>
           w2 == Option(conn.remote_host, {NULL}, <<Literal(host), Copy(conn.remote_host)>>)
           w3 == Option(conn.remote_port, {0, port},
                        <<Literal("--port"), Decimal("port", conn.remote_port)>>)
           w4 == Option(rate, {0}, <<Literal("--fps"), Decimal("fps", rate)>>)
           w5 == Option(conn.video_codec, {NULL},
                        <<Literal("--codec"), Copy(conn.video_codec)>>)
           w6 == Option(c.application.executable, {NULL},
                        app \o <<Copy(c.application.executable)>>)
<1>1. Short(w1, 1) /\ Short(w2, 2) /\ Short(w3, 2) /\ Short(w4, 2) /\ Short(w5, 2)
  BY ShortTuples, ShortOption
<1>2. Short(w6, n + 1)
  BY ShortTuples, ShortConcat, ShortOption
<1>3. StreamWords(c, program, host, port, app) = w1 \o w2 \o w3 \o w4 \o w5 \o w6
  BY DEF StreamWords
<1> HIDE DEF w1, w2, w3, w4, w5, w6
<1>4. Short(w1 \o w2, 3)
  BY <1>1, ShortConcat
<1>5. Short(w1 \o w2 \o w3, 5)
  BY <1>1, <1>4, ShortConcat
<1>6. Short(w1 \o w2 \o w3 \o w4, 7)
  BY <1>1, <1>5, ShortConcat
<1>7. Short(w1 \o w2 \o w3 \o w4 \o w5, 9)
  BY <1>1, <1>6, ShortConcat
<1>8. Short(w1 \o w2 \o w3 \o w4 \o w5 \o w6, 9 + (n + 1))
  BY <1>2, <1>7, ShortConcat
<1> QED
  BY <1>3, <1>8

LEMMA PrefixShort ==
  ASSUME NEW lens \in LensTypes \ {"auto"}, NEW c
  PROVE  Short(CommandWords(lens, c), 11)
<1>1. CASE lens = "waypipe"
  BY <1>1, WaypipeShort DEF CommandWords, Short
<1>2. CASE lens = "sunshine"
  <2>1. Short(<<Literal("--app")>>, 1)
    BY ShortTuples
  <2>2. Short(SunshineWords(c), 11)
    BY <2>1, StreamShort DEF SunshineWords
  <2> QED
    BY <1>2, <2>2 DEF CommandWords
<1>3. CASE lens = "moonlight"
  <2>1. Short(MoonlightWords(c), 10)
    BY ShortTuples, StreamShort DEF MoonlightWords
  <2> QED
    BY <1>3, <2>1 DEF CommandWords, Short
<1> QED
  BY <1>1, <1>2, <1>3 DEF LensTypes

(***************************************************************************)
(* The inductive invariant.                                                *)
(***************************************************************************)

(* The vector is a record of the builder's locals, its words a sequence.   *)
ArgvShape ==
  argv # NoVector =>
    /\ argv = [argv EXCEPT !.slots = argv.slots]
    /\ {"slots", "words", "done"} \subseteq DOMAIN argv
    /\ argv.slots \in Nat
    /\ \E S : argv.words \in Seq(S)

IInv == ArgvShape /\ ArgvInBounds

(* The first words fit, with room to spare for the terminating NULL.       *)
LEMMA BeginKeeps ==
  ASSUME IInv, NEW lens \in LensTypes \ {"auto"}, BeginArgv(lens)
  PROVE  IInv'
<1> DEFINE words == CommandWords(lens, config)
<1>1. CASE UNCHANGED argv
  BY <1>1 DEF IInv, ArgvShape, ArgvInBounds
<1>2. ASSUME NEW failed,
             argv' = [lens |-> lens, slots |-> InitialSlots, done |-> 0,
                      words |-> [i \in DOMAIN words |->
                                   IF i \in failed THEN Missing ELSE words[i].word]]
      PROVE  IInv'
  <2> DEFINE made == [i \in DOMAIN words |->
                        IF i \in failed THEN Missing ELSE words[i].word]
  <2>1. PICK S : words \in Seq(S) /\ Len(words) <= 11
    BY PrefixShort DEF Short
  <2> HIDE DEF words
  <2>2. made \in Seq({made[i] : i \in DOMAIN words}) /\ Len(made) = Len(words)
    BY <2>1
  <2>3. argv'.words = made /\ argv'.slots = InitialSlots
        /\ DOMAIN argv' = {"lens", "slots", "done", "words"}
    BY <1>2
  <2>4. Len(made) < InitialSlots /\ InitialSlots \in Nat
    BY <2>1, <2>2, SlotsAssumption
  <2>5. argv' = [argv' EXCEPT !.slots = argv'.slots]
    BY <1>2
  <2> HIDE DEF made
  <2> QED
    BY <2>2, <2>3, <2>4, <2>5 DEF IInv, ArgvShape, ArgvInBounds
<1> QED
  BY <1>1, <1>2 DEF BeginArgv, LaunchCrash

(* The vector grows before the last slot is used.                          *)
LEMMA AppendKeeps ==
  ASSUME IInv, AppendArg
  PROVE  IInv'
<1>1. CASE UNCHANGED argv
  BY <1>1 DEF IInv, ArgvShape, ArgvInBounds
<1>2. ASSUME NEW word,
             argv' = [argv EXCEPT !.slots = IF Full THEN 2 * @ ELSE @,
                                  !.words = Append(@, word),
                                  !.done = @ + 1]
      PROVE  IInv'
  <2>1. argv # NoVector
    BY DEF AppendArg
  <2>2. PICK S : argv.words \in Seq(S)
    BY <2>1 DEF IInv, ArgvShape
  <2>3. /\ {"slots", "words", "done"} \subseteq DOMAIN argv
        /\ argv.slots \in Nat /\ Len(argv.words) < argv.slots
    BY <2>1 DEF IInv, ArgvShape, ArgvInBounds
  <2>4. /\ Append(argv.words, word) \in Seq(S \cup {word})
        /\ Len(Append(argv.words, word)) = Len(argv.words) + 1
        /\ Len(argv.words) \in Nat
    <3>1. argv.words \in Seq(S \cup {word})
      BY <2>2
    <3> QED
      BY <3>1
  <2>5. /\ DOMAIN argv' = DOMAIN argv
        /\ argv'.words = Append(argv.words, word)
        /\ argv'.slots = IF Full THEN 2 * argv.slots ELSE argv.slots
        /\ argv' = [argv' EXCEPT !.slots = argv'.slots]
    BY <1>2, <2>3
  <2>6. argv'.slots \in Nat /\ Len(argv.words) + 1 < argv'.slots
    BY <2>3, <2>4, <2>5 DEF Full
  <2> QED
    BY <2>3, <2>4, <2>5, <2>6 DEF IInv, ArgvShape, ArgvInBounds
<1> QED
  BY <1>1, <1>2 DEF AppendArg, LaunchCrash

LEMMA Inductive == IInv /\ [Next]_vars => IInv'
<1> SUFFICES ASSUME IInv, [Next]_vars
             PROVE  IInv'
  OBVIOUS
<1>1. CASE argv' = NoVector
  BY <1>1 DEF IInv, ArgvShape, ArgvInBounds
<1>2. CASE UNCHANGED argv
  BY <1>2 DEF IInv, ArgvShape, ArgvInBounds
<1>3. ASSUME NEW lens \in LensTypes \ {"auto"}, BeginArgv(lens)
      PROVE  IInv'
  BY <1>3, BeginKeeps
<1>4. CASE AppendArg
  BY <1>4, AppendKeeps
<1> QED
  BY <1>1, <1>2, <1>3, <1>4 DEF Next, GrowthFails, Exec, vars

(* The vector of every builder has, between two writes, room for one more  *)
(* word or for the terminating NULL (lens_waypipe.c:104-116,               *)
(* lens_sunshine.c:108-122, lens_moonlight.c:107-121).                     *)
THEOREM ArgvBounded == Spec => []ArgvInBounds
<1>1. LaunchInit => IInv
  BY DEF LaunchInit, IInv, ArgvShape, ArgvInBounds
<1>2. IInv /\ [Next]_vars => IInv'
  BY Inductive
<1>3. IInv => ArgvInBounds
  BY DEF IInv
<1> QED
  BY <1>1, <1>2, <1>3, PTL DEF Spec

(***************************************************************************)
(* No crash without a shortage or a null.                                  *)
(***************************************************************************)

(* A sequence of words whose sources are all there. *)
Sourceful(x) == NULL \notin x.sources
SourcedIn(s, S) == s \in Seq(S) /\ \A x \in S : Sourceful(x)
Sourced(s) == \E S : SourcedIn(s, S)

LEMMA SourcedTuples ==
  /\ Sourced(<<>>)
  /\ \A a : Sourceful(a) => Sourced(<<a>>)
  /\ \A a, b : Sourceful(a) /\ Sourceful(b) => Sourced(<<a, b>>)
<1>1. Sourced(<<>>)
  <2>1. SourcedIn(<<>>, {})
    BY DEF SourcedIn
  <2> QED
    BY <2>1 DEF Sourced
<1>2. ASSUME NEW a, Sourceful(a) PROVE Sourced(<<a>>)
  <2>1. SourcedIn(<<a>>, {a})
    BY <1>2 DEF SourcedIn
  <2> QED
    BY <2>1 DEF Sourced
<1>3. ASSUME NEW a, NEW b, Sourceful(a), Sourceful(b) PROVE Sourced(<<a, b>>)
  <2>1. SourcedIn(<<a, b>>, {a, b})
    BY <1>3 DEF SourcedIn
  <2> QED
    BY <2>1 DEF Sourced
<1> QED
  BY <1>1, <1>2, <1>3

LEMMA SourcedConcat ==
  ASSUME NEW s, NEW t, Sourced(s), Sourced(t)
  PROVE  Sourced(s \o t)
<1>1. PICK S : SourcedIn(s, S)
  BY DEF Sourced
<1>2. PICK T : SourcedIn(t, T)
  BY DEF Sourced
<1>3. s \in Seq(S \cup T) /\ t \in Seq(S \cup T)
  BY <1>1, <1>2 DEF SourcedIn
<1>4. s \o t \in Seq(S \cup T)
  BY <1>3
<1>5. SourcedIn(s \o t, S \cup T)
  BY <1>1, <1>2, <1>4 DEF SourcedIn
<1> QED
  BY <1>5 DEF Sourced

LEMMA SourcedOption ==
  ASSUME NEW text, NEW absent, NEW words, text \notin absent => Sourced(words)
  PROVE  Sourced(Option(text, absent, words))
  BY SourcedTuples DEF Option

(* The strings that the builders read without looking. *)
Connected(c) == c.connection.remote_host # NULL /\ c.connection.ssh_user # NULL
Runnable(c) ==
  /\ c.application.executable # NULL
  /\ c.application.args = NULL \/ c.application.args \in Seq(STRING)

LEMMA CopySourced ==
  ASSUME NEW text, text # NULL
  PROVE  Sourceful(Copy(text))
  BY DEF Copy, Sourceful

(* The words that are written in the code. *)
LEMMA LiteralSourced ==
  ASSUME NEW text
  PROVE  Sourceful(Literal(text))
  BY DEF Literal, Sourceful

LEMMA WaypipeSourced ==
  ASSUME NEW c, Connected(c), Runnable(c)
  PROVE  Sourced(WaypipeWords(c))
<1> DEFINE conn == c.connection
           w1 == <<Literal("waypipe"), Literal("client")>>
           w2 == Option(conn.compression, {NULL, "none"},
                        <<Format(<<"--compress=", conn.compression>>, {})>>)
           w3 == Option(conn.video_codec, {NULL},
                        <<Format(<<"--video-codec=", conn.video_codec>>, {})>>)
           target == Format(<<conn.ssh_user, "@", conn.remote_host>>,
                            {conn.ssh_user, conn.remote_host})
           w4 == <<Literal("--ssh"), target, Literal("--"), Copy(c.application.executable)>>
<1>2. Sourceful(Copy(c.application.executable))
  BY CopySourced DEF Runnable
<1>3. Sourceful(target)
  BY DEF Format, Connected, Sourceful
<1>4. \A texts : Sourceful(Format(texts, {}))
  BY DEF Format, Sourceful
<1>5. Sourced(w1) /\ Sourced(w2) /\ Sourced(w3)
  BY <1>4, LiteralSourced, SourcedTuples, SourcedOption
<1>6. Sourced(w4)
  <2> HIDE DEF target
  <2>1. Sourced(<<Literal("--ssh"), target>>)
    BY <1>3, LiteralSourced, SourcedTuples
  <2>2. Sourced(<<Literal("--"), Copy(c.application.executable)>>)
    BY <1>2, LiteralSourced, SourcedTuples
  <2>3. w4 = <<Literal("--ssh"), target>> \o <<Literal("--"), Copy(c.application.executable)>>
    OBVIOUS
  <2> HIDE DEF w4
  <2> QED
    BY <2>1, <2>2, <2>3, SourcedConcat
<1>7. WaypipeWords(c) = w1 \o w2 \o w3 \o w4
  BY DEF WaypipeWords
<1> HIDE DEF w1, w2, w3, w4
<1> QED
  BY <1>5, <1>6, <1>7, SourcedConcat

LEMMA StreamSourced ==
  ASSUME NEW c, NEW program, NEW host, NEW port,
         NEW app, Sourced(app), Runnable(c)
  PROVE  Sourced(StreamWords(c, program, host, port, app))
<1> DEFINE conn == c.connection
           rate == c.performance.frame_rate
           w1 == <<Literal(program)>>
           w2 == Option(conn.remote_host, {NULL}, <<Literal(host), Copy(conn.remote_host)>>)
           w3 == Option(conn.remote_port, {0, port},
                        <<Literal("--port"), Decimal("port", conn.remote_port)>>)
           w4 == Option(rate, {0}, <<Literal("--fps"), Decimal("fps", rate)>>)
           w5 == Option(conn.video_codec, {NULL},
                        <<Literal("--codec"), Copy(conn.video_codec)>>)
           w6 == Option(c.application.executable, {NULL},
                        app \o <<Copy(c.application.executable)>>)
<1>2. \A of, n : Sourceful(Decimal(of, n))
  BY DEF Decimal, Sourceful
<1>3. Sourced(w1) /\ Sourced(w3) /\ Sourced(w4)
  BY <1>2, LiteralSourced, SourcedTuples, SourcedOption
<1>4. Sourced(w2) /\ Sourced(w5)
  <2>1. \A text : text # NULL => Sourceful(Copy(text))
    BY CopySourced
  <2> QED
    BY <2>1, LiteralSourced, SourcedTuples, SourcedOption
<1>5. Sourced(w6)
  <2>1. Sourced(<<Copy(c.application.executable)>>)
    BY CopySourced, SourcedTuples DEF Runnable
  <2> QED
    BY <2>1, SourcedConcat, SourcedOption
<1>6. StreamWords(c, program, host, port, app) = w1 \o w2 \o w3 \o w4 \o w5 \o w6
  BY DEF StreamWords
<1> HIDE DEF w1, w2, w3, w4, w5, w6
<1>7. Sourced(w1 \o w2 \o w3)
  BY <1>3, <1>4, SourcedConcat
<1>8. Sourced(w1 \o w2 \o w3 \o w4 \o w5)
  BY <1>3, <1>4, <1>7, SourcedConcat
<1> QED
  BY <1>5, <1>6, <1>8, SourcedConcat

LEMMA CommandSourced ==
  ASSUME NEW lens \in LensTypes \ {"auto"}, NEW c, Connected(c), Runnable(c)
  PROVE  \A i \in DOMAIN CommandWords(lens, c) : Sourceful(CommandWords(lens, c)[i])
<1>1. Sourced(SunshineWords(c)) /\ Sourced(MoonlightWords(c))
  <2>1. Sourced(<<Literal("--app")>>) /\ Sourced(<<>>)
    BY LiteralSourced, SourcedTuples
  <2> QED
    BY <2>1, StreamSourced DEF SunshineWords, MoonlightWords
<1>2. Sourced(CommandWords(lens, c))
  BY <1>1, WaypipeSourced DEF CommandWords, LensTypes
<1>3. PICK S : SourcedIn(CommandWords(lens, c), S)
  BY <1>2 DEF Sourced
<1> QED
  BY <1>3 DEF SourcedIn

(* What a key of a readable section holds.                                 *)
Readably(key) ==
  CASE key \in {"remote_port", "bandwidth_limit", "target_latency_ms", "frame_rate",
                "prediction_window_ms", "metrics_interval_ms"} -> Int
    [] key \in {"enable_prediction", "enable_scroll_smoothing", "enable_metrics"}
         -> BOOLEAN
    [] key \in Lists -> Seq(STRING)
    [] OTHER -> STRING

Read(name) == Readable(Section(name))

LEMMA NullFacts ==
  NULL \notin STRING /\ NULL # "root" /\ \A key : NULL \notin Readably(key)
<1>1. /\ NULL \notin STRING /\ NULL \notin Int /\ NULL \notin BOOLEAN
      /\ NULL \notin Seq(STRING \cup {NULL})
  BY NullAssumption
<1>2. NULL \notin Seq(STRING)
  <2>1. Seq(STRING) \subseteq Seq(STRING \cup {NULL})
    OBVIOUS
  <2> QED
    BY <1>1, <2>1
<1>3. \A key : NULL \notin Readably(key)
  BY <1>1, <1>2 DEF Readably
<1>4. NULL # "root"
  BY NullAssumption
<1> QED
  BY <1>1, <1>3, <1>4

(* A list of texts that has no NULL. *)
LEMMA WholeList ==
  ASSUME NEW list \in Seq(STRING \cup {NULL}), \A i \in DOMAIN list : list[i] # NULL
  PROVE  list \in Seq(STRING)
<1>1. Len(list) \in Nat /\ DOMAIN list = 1 .. Len(list)
  OBVIOUS
<1>2. \A i \in DOMAIN list : list[i] \in STRING \cup {NULL}
  OBVIOUS
<1>3. list = [i \in 1 .. Len(list) |-> list[i]]
  OBVIOUS
<1>4. list \in [1 .. Len(list) -> STRING]
  BY <1>1, <1>2, <1>3
<1> QED
  BY <1>1, <1>4

(* The keys of a section of the document, as far as it has them.           *)
LEMMA SectionReturns ==
  ASSUME document \in Documents, NEW name
  PROVE  \A key \in DOMAIN Section(name) : Section(name)[key] \in Returned(key)
<1>1. CASE Has(document, name)
  <2>1. Section(name) = document[name]
    BY <1>1 DEF Section, Get
  <2> QED
    BY <1>1, <2>1, DocumentAssumption DEF Has
<1>2. CASE ~Has(document, name)
  <2>1. Section(name) = Empty
    BY <1>2 DEF Section, Get
  <2>2. DOMAIN Empty = {}
    BY DEF Empty
  <2> QED
    BY <2>1, <2>2
<1> QED
  BY <1>1, <1>2

LEMMA SectionTypes ==
  ASSUME document \in Documents, NEW name, Read(name)
  PROVE  \A key \in DOMAIN Section(name) :
           Section(name)[key] \in Readably(key) /\ Section(name)[key] # NULL
<1> SUFFICES ASSUME NEW key \in DOMAIN Section(name)
             PROVE  /\ Section(name)[key] \in Readably(key)
                    /\ Section(name)[key] # NULL
  OBVIOUS
<1> DEFINE value == Section(name)[key]
<1>1. value \in Returned(key)
  BY SectionReturns
<1>2. /\ value # NULL
      /\ key \in Lists => \A i \in DOMAIN value : value[i] # NULL
  BY DEF Read, Readable
<1> HIDE DEF value
<1>3. CASE key \in Lists
  <2>1. value \in Seq(STRING \cup {NULL})
    BY <1>1, <1>2, <1>3 DEF Returned, Lists
  <2>2. value \in Seq(STRING)
    BY <1>2, <1>3, <2>1, WholeList
  <2> QED
    BY <1>2, <1>3, <2>2 DEF Readably, Lists, value
<1>4. CASE key \notin Lists
  <2>1. value \in Readably(key)
    BY <1>1, <1>2, <1>4 DEF Returned, Readably, Int32
  <2> QED
    BY <1>2, <2>1 DEF value
<1> QED
  BY <1>3, <1>4

(* The arguments of an application that is readable.                       *)
LEMMA DocumentTypes ==
  ASSUME document \in Documents, Read("application")
  PROVE  Get(Section("application"), "args", <<>>) \in Seq(STRING)
<1>1. <<>> \in Seq(STRING) /\ Readably("args") = Seq(STRING)
  BY DEF Readably, Lists
<1> QED
  BY <1>1, SectionTypes DEF Has, Get

LEMMA ReadKept ==
  ASSUME document' = document
  PROVE  \A name : Section(name)' = Section(name) /\ Read(name)' = Read(name)
<1>1. \A name : Section(name)' = Section(name)
  BY DEF Section
<1> QED
  BY <1>1 DEF Read

(* A step in which no allocation fails has an empty set of failures.       *)
LEMMA ShortfallCount ==
  ASSUME NEW wanted, NEW failed \in Shortfalls(wanted)
  PROVE  /\ Cardinality(failed) \in Nat
         /\ failed # {} => Cardinality(failed) > 0
<1>1. CASE failed = {}
  BY <1>1, FS_EmptySet
<1>2. ASSUME NEW block, failed = {block}
      PROVE  Cardinality(failed) = 1 /\ failed # {}
  BY <1>2, FS_Singleton
<1> QED
  BY <1>1, <1>2 DEF Shortfalls

Parsing ==
  {"connection", "application", "performance", "observability", "lens", "ready"}

(* What a load that got all its memory has made of the document so far.    *)
Shaped(c) == {"connection", "application"} \subseteq DOMAIN c
Linked(c) ==
  Connected(c) /\ {"remote_host", "ssh_user"} \subseteq DOMAIN c.connection

Gathered ==
  /\ pc \in Parsing => document \in Documents /\ Shaped(config)
  /\ pc \in Parsing \ {"connection"} => Linked(config) /\ Read("connection")
  /\ pc \in Parsing \ {"connection", "application"} =>
       Runnable(config) /\ Read("application")

(* What the program may crash for with all its memory.                     *)
Excused == \E name \in DOMAIN document : ~Readable(document[name])

CleanInv ==
  /\ shortages \in Nat
  /\ argv # NoVector => argv.done \in Nat /\ "done" \in DOMAIN argv
  /\ shortages = 0 => (pc = "crashed" => Excused) /\ Gathered

(* A step of the loader that parses a later section.                       *)
LEMMA ParsedKeeps ==
  ASSUME CleanInv, NEW wanted, NEW failed \in Shortfalls(wanted), NEW section,
         NEW name \in {"performance", "observability", "lens"},
         NEW next \in Parsing \ {"connection", "application"},
         pc \in Parsing \ {"connection", "application"},
         Parsed(name, section, wanted, failed, next), argv' = NoVector
  PROVE  CleanInv'
<1>1. shortages' \in Nat /\ (shortages' = 0 => shortages = 0)
  BY ShortfallCount DEF CleanInv, Parsed, Allocated
<1>2. ASSUME shortages' = 0 PROVE pc' # "crashed" /\ Gathered'
  <2>1. Gathered
    BY <1>1, <1>2 DEF CleanInv
  <2>2. /\ config' = [config EXCEPT ![name] = section]
        /\ pc' = next /\ document' = document
    BY DEF Parsed
  <2>3. /\ Shaped(config) /\ Linked(config) /\ Runnable(config)
        /\ document \in Documents /\ Read("connection") /\ Read("application")
    BY <2>1 DEF Gathered
  <2>4. /\ config'.connection = config.connection
        /\ config'.application = config.application
        /\ DOMAIN config' = DOMAIN config
    BY <2>2, <2>3 DEF Shaped
  <2>5. Read("connection")' /\ Read("application")'
    BY <2>2, <2>3, ReadKept
  <2> QED
    BY <2>2, <2>3, <2>4, <2>5
    DEF Gathered, Shaped, Linked, Connected, Runnable, Parsing
<1> QED
  BY <1>1, <1>2 DEF CleanInv

LEMMA BeginLoadKeeps ==
  ASSUME CleanInv, NEW d \in Documents, BeginLoad(d), argv' = NoVector
  PROVE  CleanInv'
<1>1. DOMAIN Zero = {"connection", "application", "performance", "observability", "lens"}
  BY DEF Zero
<1>2. pc' = "connection" /\ config' = Zero /\ document' = d /\ shortages' = shortages
  BY DEF BeginLoad
<1> QED
  BY <1>1, <1>2 DEF CleanInv, Gathered, Shaped, Parsing

(* With all its memory a connection has a host, which was required, and a  *)
(* user, who is root if the document names none.                           *)
LEMMA ConnectionKeeps ==
  ASSUME CleanInv, ParseConnection, argv' = NoVector
  PROVE  CleanInv'
<1> DEFINE object == Section("connection")
<1>1. PICK wanted, failed, section :
         /\ failed \in Shortfalls(wanted)
         /\ Parsed("connection", section, wanted, failed, "application")
         /\ {"remote_host", "ssh_user"} \subseteq DOMAIN section
         /\ section.remote_host = Text(object, "remote_host", NULL, failed)
         /\ section.ssh_user = Text(object, "ssh_user", "root", failed)
  BY DEF ParseConnection
<1>2. shortages' \in Nat /\ (shortages' = 0 => shortages = 0 /\ failed = {})
  <2>1. shortages \in Nat /\ shortages' = shortages + Cardinality(failed)
    BY <1>1 DEF CleanInv, Parsed, Allocated
  <2>2. Cardinality(failed) \in Nat /\ (failed # {} => Cardinality(failed) > 0)
    BY <1>1, ShortfallCount
  <2> QED
    BY <2>1, <2>2
<1>3. ASSUME shortages' = 0 PROVE pc' # "crashed" /\ Gathered'
  <2>1. document \in Documents /\ Shaped(config)
    BY <1>2, <1>3 DEF CleanInv, Gathered, Parsing, ParseConnection
  <2>2. /\ Has(document, "connection") /\ Has(document["connection"], "remote_host")
        /\ object = document["connection"] /\ Read("connection")
    BY DEF ParseConnection, Complete, RequiredKey, Section, Get, Read
  <2>3. section.remote_host # NULL
    <3>1. section.remote_host = object["remote_host"]
      BY <1>1, <1>2, <1>3, <2>2 DEF Text, Dup, Get
    <3> QED
      BY <2>1, <2>2, <3>1, SectionTypes DEF Has
  <2>4. section.ssh_user # NULL
    <3>1. CASE Has(object, "ssh_user")
      <4>1. section.ssh_user = object["ssh_user"]
        BY <1>1, <1>2, <1>3, <3>1 DEF Text, Dup, Get
      <4> QED
        BY <2>1, <2>2, <3>1, <4>1, SectionTypes DEF Has
    <3>2. CASE ~Has(object, "ssh_user")
      <4>1. section.ssh_user = "root"
        BY <1>1, <1>2, <1>3, <3>2 DEF Text, Dup, Get
      <4> QED
        BY <4>1, NullFacts
    <3> QED
      BY <3>1, <3>2
  <2>5. /\ config' = [config EXCEPT !["connection"] = section]
        /\ pc' = "application" /\ document' = document
    BY <1>1 DEF Parsed
  <2>6. DOMAIN config' = DOMAIN config /\ config'.connection = section
    BY <2>1, <2>5 DEF Shaped
  <2>7. Read("connection")'
    BY <2>2, <2>5, ReadKept
  <2> QED
    BY <1>1, <2>1, <2>3, <2>4, <2>5, <2>6, <2>7
    DEF Gathered, Shaped, Linked, Connected, Parsing
<1> QED
  BY <1>2, <1>3, <1>1 DEF CleanInv

(* The arrays are written without a check: a crash, if there is no memory. *)
LEMMA ApplicationKeeps ==
  ASSUME CleanInv, ParseApplication, argv' = NoVector
  PROVE  CleanInv'
<1> DEFINE object == Section("application")
           args == Get(object, "args", NULL)
<1>1. CASE \E wanted, failed :
             failed \in Shortfalls(wanted) /\ failed # {} /\ Crash(failed)
  <2>1. PICK wanted, failed :
          failed \in Shortfalls(wanted) /\ failed # {} /\ Crash(failed)
    BY <1>1
  <2> QED
    BY <2>1, ShortfallCount DEF Crash, CleanInv
<1>2. ASSUME NEW wanted, NEW failed \in Shortfalls(wanted), NEW section,
             Parsed("application", section, wanted, failed, "performance"),
             section.executable = Text(object, "executable", NULL, failed),
             section.args = Copied("args", args, failed)
      PROVE  CleanInv'
  <2>1. shortages' \in Nat /\ (shortages' = 0 => shortages = 0 /\ failed = {})
    <3>1. shortages \in Nat /\ shortages' = shortages + Cardinality(failed)
      BY <1>2 DEF CleanInv, Parsed, Allocated
    <3>2. Cardinality(failed) \in Nat /\ (failed # {} => Cardinality(failed) > 0)
      BY <1>2, ShortfallCount
    <3> QED
      BY <3>1, <3>2
  <2>2. ASSUME shortages' = 0 PROVE pc' # "crashed" /\ Gathered'
    <3>1. /\ document \in Documents /\ Shaped(config) /\ Linked(config)
          /\ Read("connection")
      BY <2>1, <2>2 DEF CleanInv, Gathered, Parsing, ParseApplication
    <3>2. /\ Has(document, "application") /\ Has(document["application"], "executable")
          /\ object = document["application"] /\ Read("application")
      BY DEF ParseApplication, Complete, RequiredKey, Section, Get, Read
    <3>3. section.executable # NULL
      <4>1. section.executable = object["executable"]
        BY <1>2, <2>1, <2>2, <3>2 DEF Text, Dup, Get
      <4> QED
        BY <3>1, <3>2, <4>1, SectionTypes DEF Has
    <3>4. section.args = NULL \/ section.args \in Seq(STRING)
      <4>1. CASE args = NULL
        BY <1>2, <4>1 DEF Copied
      <4>2. CASE args # NULL
        <5>1. Get(object, "args", <<>>) = args
          BY <4>2 DEF Get
        <5>2. args \in Seq(STRING)
          BY <3>1, <3>2, <5>1, DocumentTypes
        <5>3. section.args = [i \in DOMAIN args |-> args[i]]
          BY <1>2, <2>1, <2>2, <4>2 DEF Copied
        <5> HIDE DEF args
        <5> QED
          BY <5>2, <5>3
      <4> QED
        BY <4>1, <4>2
    <3>5. /\ config' = [config EXCEPT !["application"] = section]
          /\ pc' = "performance" /\ document' = document
      BY <1>2 DEF Parsed
    <3>6. /\ DOMAIN config' = DOMAIN config /\ config'.application = section
          /\ config'.connection = config.connection
      BY <3>1, <3>5 DEF Shaped
    <3>7. Read("connection")' /\ Read("application")'
      BY <3>1, <3>2, <3>5, ReadKept
    <3> QED
      BY <3>1, <3>3, <3>4, <3>5, <3>6, <3>7
      DEF Gathered, Shaped, Linked, Connected, Runnable, Parsing
  <2> QED
    BY <1>2, <2>1, <2>2 DEF CleanInv
<1> QED
  BY <1>1, <1>2 DEF ParseApplication

LEMMA LensKeeps ==
  ASSUME CleanInv, ParseLens, argv' = NoVector
  PROVE  CleanInv'
<1>1. CASE \E wanted, failed :
             failed \in Shortfalls(wanted) /\ failed # {} /\ Crash(failed)
  <2>1. PICK wanted, failed :
          failed \in Shortfalls(wanted) /\ failed # {} /\ Crash(failed)
    BY <1>1
  <2> QED
    BY <2>1, ShortfallCount DEF Crash, CleanInv
<1>2. CASE \E wanted, failed, section :
             /\ failed \in Shortfalls(wanted)
             /\ Parsed("lens", section, wanted, failed, "ready")
  BY <1>2, ParsedKeeps DEF ParseLens, Parsing
<1> QED
  BY <1>1, <1>2 DEF ParseLens

LEMMA RejectKeeps ==
  ASSUME CleanInv, Reject, argv' = NoVector
  PROVE  CleanInv'
  BY DEF CleanInv, Gathered, Reject, Parsing

LEMMA ProfileKeeps ==
  ASSUME CleanInv, NEW p \in Profiles, ApplyProfile(p), argv' = NoVector
  PROVE  CleanInv'
<1> DEFINE section == [profile |-> p, target_latency |-> Preset(p).latency,
                       frame_rate |-> Preset(p).rate,
                       prediction |-> Preset(p).prediction,
                       window |-> Preset(p).window,
                       smoothing |-> Preset(p).smoothing]
           compression(failed) == Dup("compression", Preset(p).compression, failed)
           codec(failed) == Dup("video_codec", Preset(p).codec, failed)
           limit == Preset(p).limit
<1>1. PICK failed \in Shortfalls(Strings(Replaced)) :
        /\ config' = [config EXCEPT !.performance = section,
                                    !.connection.compression = compression(failed),
                                    !.connection.video_codec = codec(failed),
                                    !.connection.bandwidth_limit = limit]
        /\ shortages' = shortages + Cardinality(failed)
  BY DEF ApplyProfile
<1> HIDE DEF section, compression, codec, limit
<1>2. pc' = pc /\ pc = "ready" /\ document' = document
  BY DEF ApplyProfile
<1>3. shortages' \in Nat /\ (shortages' = 0 => shortages = 0)
  BY <1>1, ShortfallCount DEF CleanInv
<1>4. ASSUME shortages' = 0 PROVE Gathered'
  <2>1. /\ Shaped(config) /\ Linked(config) /\ Runnable(config)
        /\ document \in Documents /\ Read("connection") /\ Read("application")
    BY <1>2, <1>3, <1>4 DEF CleanInv, Gathered, Parsing
  <2>2. /\ config'.application = config.application
        /\ DOMAIN config' = DOMAIN config
        /\ config'.connection =
             [config.connection EXCEPT !.compression = compression(failed),
                                       !.video_codec = codec(failed),
                                       !.bandwidth_limit = limit]
    BY <1>1, <2>1 DEF Shaped
  <2>3. Linked(config')
    BY <2>1, <2>2 DEF Linked, Connected
  <2>4. Read("connection")' /\ Read("application")'
    BY <1>2, <2>1, ReadKept
  <2> QED
    BY <1>2, <2>1, <2>2, <2>3, <2>4 DEF Gathered, Shaped, Linked, Connected, Runnable, Parsing
<1> QED
  BY <1>2, <1>3, <1>4 DEF CleanInv

(* While the builders are at work, the configuration does not change.      *)
LEMMA LoaderGathered ==
  ASSUME Loader, Gathered
  PROVE  Gathered'
<1>1. UNCHANGED <<pc, document, config>>
  BY DEF Loader
<1>2. /\ Read("connection")' = Read("connection")
      /\ Read("application")' = Read("application")
  BY <1>1, ReadKept
<1> QED
  BY <1>1, <1>2 DEF Gathered, Shaped, Linked, Connected, Runnable

(* No builder finds a string missing when all the memory was there.        *)
LEMMA BeginArgvKeeps ==
  ASSUME CleanInv, NEW lens \in LensTypes \ {"auto"}, BeginArgv(lens)
  PROVE  CleanInv' /\ (pc' = "crashed" => shortages' # 0)
<1> DEFINE words == CommandWords(lens, config)
<1>1. PICK failed \in Shortfalls(DOMAIN words) :
        \/ \E i \in DOMAIN words :
             NULL \in words[i].sources /\ LaunchCrash(Cardinality(failed))
        \/ /\ shortages' = shortages + Cardinality(failed)
           /\ Loader /\ UNCHANGED argv
        \/ /\ shortages' = shortages + Cardinality(failed)
           /\ Loader
           /\ argv' = [lens |-> lens, slots |-> InitialSlots, done |-> 0,
                       words |-> [i \in DOMAIN words |->
                                    IF i \in failed THEN Missing ELSE words[i].word]]
  BY DEF BeginArgv
<1>2. pc = "ready" /\ argv = NoVector
  BY DEF BeginArgv
<1>3. Cardinality(failed) \in Nat /\ shortages \in Nat
  BY ShortfallCount DEF CleanInv
<1>4. CASE \E i \in DOMAIN words :
             NULL \in words[i].sources /\ LaunchCrash(Cardinality(failed))
  <2>1. shortages > 0
    <3> SUFFICES ASSUME shortages = 0 PROVE FALSE
      BY <1>3
    <3>1. Linked(config) /\ Runnable(config)
      BY <1>2 DEF CleanInv, Gathered, Parsing
    <3>2. \A i \in DOMAIN words : Sourceful(words[i])
      BY <3>1, CommandSourced DEF Linked
    <3> HIDE DEF words
    <3> QED
      BY <1>4, <3>2 DEF Sourceful
  <2>2. shortages' = shortages + Cardinality(failed) /\ UNCHANGED argv
    BY <1>4 DEF LaunchCrash
  <2>3. shortages' \in Nat /\ shortages' # 0
    BY <1>3, <2>1, <2>2
  <2> QED
    BY <1>2, <2>2, <2>3 DEF CleanInv
<1>5. ASSUME shortages' = shortages + Cardinality(failed), Loader
      PROVE  /\ shortages' \in Nat
             /\ shortages' = 0 => pc' # "crashed" /\ Gathered'
  <2>1. shortages' \in Nat /\ (shortages' = 0 => shortages = 0)
    BY <1>3, <1>5
  <2> QED
    BY <1>2, <1>5, <2>1, LoaderGathered DEF CleanInv, Loader
<1>6. ASSUME UNCHANGED argv \/ argv' = [lens |-> lens, slots |-> InitialSlots, done |-> 0,
                       words |-> [i \in DOMAIN words |->
                                    IF i \in failed THEN Missing ELSE words[i].word]]
      PROVE  argv' # NoVector => argv'.done \in Nat /\ "done" \in DOMAIN argv'
  BY <1>2, <1>6
<1> QED
  BY <1>1, <1>4, <1>5, <1>6 DEF CleanInv

(* The arguments are strings, if all the memory was there.                 *)
LEMMA AppendArgKeeps ==
  ASSUME CleanInv, AppendArg
  PROVE  CleanInv' /\ (pc' = "crashed" => shortages' # 0)
<1> DEFINE args == Arguments(argv.lens, config)
           arg == args[argv.done + 1]
<1>1. pc = "ready" /\ argv # NoVector /\ argv.done < Len(args) /\ shortages \in Nat
      /\ argv.done \in Nat /\ "done" \in DOMAIN argv
  BY DEF AppendArg, CleanInv
<1>2. CASE arg = NULL /\ LaunchCrash(0)
  <2>1. shortages # 0
    <3> SUFFICES ASSUME shortages = 0 PROVE FALSE
      OBVIOUS
    <3>1. Runnable(config)
      BY <1>1 DEF CleanInv, Gathered, Parsing
    <3>2. args \in Seq(STRING)
      <4>1. args = <<>> \/ (args = config.application.args /\ args # NULL)
        BY DEF Arguments
      <4>2. <<>> \in Seq(STRING)
        OBVIOUS
      <4> HIDE DEF args
      <4> QED
        BY <3>1, <4>1, <4>2 DEF Runnable
    <3>3. arg \in STRING
      <4> HIDE DEF args
      <4> QED
        BY <1>1, <3>2
    <3> QED
      BY <1>2, <3>3, NullFacts
  <2> QED
    BY <1>1, <1>2, <2>1 DEF LaunchCrash, CleanInv
<1>3. ASSUME NEW failed \in Shortfalls({"strdup"}), NEW slots, NEW words,
             argv' = [argv EXCEPT !.slots = slots, !.words = words, !.done = @ + 1],
             Allocated({"strdup"}, failed), Loader
      PROVE  CleanInv' /\ pc' # "crashed"
  <2>1. argv'.done \in Nat /\ "done" \in DOMAIN argv'
    BY <1>1, <1>3
  <2>2. Cardinality(failed) \in Nat /\ shortages' = shortages + Cardinality(failed)
    BY <1>3, ShortfallCount DEF Allocated
  <2>3. shortages' \in Nat /\ (shortages' = 0 => shortages = 0)
    BY <1>1, <2>2
  <2> QED
    BY <1>1, <1>3, <2>1, <2>3, LoaderGathered DEF CleanInv, Loader
<1> QED
  BY <1>2, <1>3 DEF AppendArg

(* A section that cannot be read is one of the document's.                 *)
LEMMA ReadNullKeeps ==
  ASSUME CleanInv, ReadNull, argv' = NoVector
  PROVE  CleanInv'
<1>1. ~Readable(Section(pc)) /\ document' = document /\ pc' = "crashed"
  BY DEF ReadNull, Crash
<1>2. shortages' = shortages
  <2>1. shortages' = shortages + Cardinality({}) /\ Cardinality({}) = 0
    BY FS_EmptySet DEF ReadNull, Crash
  <2> QED
    BY <2>1 DEF CleanInv
<1>3. Has(document, pc)
  <2> SUFFICES ASSUME ~Has(document, pc) PROVE FALSE
    OBVIOUS
  <2>1. Section(pc) = Empty /\ DOMAIN Empty = {}
    BY DEF Section, Get, Empty
  <2> QED
    BY <1>1, <2>1 DEF Readable
<1>4. Excused
  BY <1>1, <1>3 DEF Excused, Section, Get, Has
<1>5. Excused'
  BY <1>1, <1>4 DEF Excused
<1> QED
  BY <1>1, <1>2, <1>5 DEF CleanInv, Gathered, Parsing

LEMMA LoaderKeeps ==
  ASSUME CleanInv, ConfigNext, argv' = NoVector
  PROVE  CleanInv'
<1>1. CASE ParsePerformance
  <2>1. {} \in Shortfalls({})
    BY DEF Shortfalls
  <2> QED
    BY <1>1, <2>1, ParsedKeeps DEF ParsePerformance, Parsing
<1>2. CASE ParseObservability
  BY <1>2, ParsedKeeps DEF ParseObservability, Parsing
<1>3. CASE FreeConfig
  BY <1>3 DEF FreeConfig, CleanInv, Gathered, Parsing
<1>4. CASE \E d \in Documents : BeginLoad(d)
  BY <1>4, BeginLoadKeeps
<1>5. CASE \E p \in Profiles : ApplyProfile(p)
  BY <1>5, ProfileKeeps
<1> QED
  BY <1>1, <1>2, <1>3, <1>4, <1>5,
     ConnectionKeeps, ApplicationKeeps, LensKeeps, RejectKeeps, ReadNullKeeps
  DEF ConfigNext

LEMMA CleanInductive == CleanInv /\ [Next]_vars => CleanInv'
<1> SUFFICES ASSUME CleanInv, [Next]_vars
             PROVE  CleanInv'
  OBVIOUS
<1>1. CASE argv = NoVector /\ ConfigNext /\ argv' = NoVector
  BY <1>1, LoaderKeeps
<1>2. CASE \E lens \in LensTypes \ {"auto"} : BeginArgv(lens)
  BY <1>2, BeginArgvKeeps
<1>3. CASE AppendArg
  BY <1>3, AppendArgKeeps
<1>4. CASE GrowthFails
  BY <1>4, LoaderGathered DEF GrowthFails, CleanInv, Loader
<1>5. CASE Exec
  <2>1. /\ pc = "ready" /\ argv' = NoVector /\ Loader
        /\ \E wanted : \E failed \in Shortfalls(wanted) :
             shortages' = shortages + Cardinality(failed)
    BY <1>5 DEF Exec
  <2>2. shortages' \in Nat /\ (shortages' = 0 => shortages = 0)
    BY <2>1, ShortfallCount DEF CleanInv
  <2> QED
    BY <2>1, <2>2, LoaderGathered DEF CleanInv, Loader
<1>6. CASE UNCHANGED vars
  <2>1. Loader /\ argv' = argv /\ shortages' = shortages
    BY <1>6 DEF vars, configVars, Loader
  <2>2. Excused' = Excused
    BY <2>1 DEF Loader, Excused
  <2> QED
    BY <2>1, <2>2, LoaderGathered DEF CleanInv, Loader
<1> QED
  BY <1>1, <1>2, <1>3, <1>4, <1>5, <1>6 DEF Next

(* In a run in which no allocation failed, the loader ends the program for *)
(* a JSON null where it wants a text, or no list where it wants one, and   *)
(* for nothing else; and no builder does: for any JSON documents           *)
(* (schema.c:16-260, lens_waypipe.c:57-130, lens_sunshine.c:58-130,        *)
(* lens_moonlight.c:58-130).                                               *)
THEOREM NoCrashUnlessShort == Spec => []CrashOnlyIfShortOrNull
<1>1. LaunchInit => CleanInv
  BY DEF LaunchInit, Init, CleanInv, Gathered, Parsing
<1>2. CleanInv /\ [Next]_vars => CleanInv'
  BY CleanInductive
<1>3. CleanInv => CrashOnlyIfShortOrNull
  BY DEF CleanInv, CrashOnlyIfShortOrNull, Excused
<1> QED
  BY <1>1, <1>2, <1>3, PTL DEF Spec

(***************************************************************************)
(* Counting blocks.                                                        *)
(***************************************************************************)
One(x) == IF x = NULL THEN 0 ELSE 1
In(W, e) == IF e \in W THEN 1 ELSE 0

LEMMA OneIsNat == \A x : One(x) \in Nat
  BY DEF One

LEMMA CountOut ==
  ASSUME NEW W, IsFiniteSet(W), NEW e
  PROVE  /\ IsFiniteSet(W \ {e})
         /\ Cardinality(W) \in Nat /\ Cardinality(W \ {e}) \in Nat
         /\ Cardinality(W) = In(W, e) + Cardinality(W \ {e})
<1>1. IsFiniteSet(W \ {e}) /\ Cardinality(W) \in Nat /\ Cardinality(W \ {e}) \in Nat
  BY FS_Subset, FS_CardinalityType
<1>2. Cardinality(W \ {e}) = IF e \in W THEN Cardinality(W) - 1 ELSE Cardinality(W)
  BY FS_RemoveElement
<1> QED
  BY <1>1, <1>2 DEF In

LEMMA CountFive ==
  ASSUME NEW a, NEW b, NEW c, NEW d, NEW e,
         a \notin {b, c, d, e}, b \notin {c, d, e}, c \notin {d, e}, d # e,
         NEW W \in SUBSET {a, b, c, d, e}
  PROVE  /\ IsFiniteSet(W) /\ Cardinality(W) \in Nat
         /\ Cardinality(W) = In(W, a) + In(W, b) + In(W, c) + In(W, d) + In(W, e)
<1>1. IsFiniteSet(W)
  <2>1. IsFiniteSet({a}) /\ IsFiniteSet({b}) /\ IsFiniteSet({c}) /\ IsFiniteSet({d}) /\ IsFiniteSet({e})
    BY FS_Singleton
  <2>2. IsFiniteSet({a} \cup {b}) /\ IsFiniteSet({c} \cup {d})
    BY <2>1, FS_Union
  <2>3. IsFiniteSet(({a} \cup {b}) \cup ({c} \cup {d}))
    BY <2>2, FS_Union
  <2>4. IsFiniteSet((({a} \cup {b}) \cup ({c} \cup {d})) \cup {e})
    BY <2>1, <2>3, FS_Union
  <2>5. W \subseteq (({a} \cup {b}) \cup ({c} \cup {d})) \cup {e}
    OBVIOUS
  <2> QED
    BY <2>4, <2>5, FS_Subset
<1> DEFINE W1 == W \ {a}
           W2 == W1 \ {b}
           W3 == W2 \ {c}
           W4 == W3 \ {d}
<1>2. /\ In(W1, b) = In(W, b) /\ In(W2, c) = In(W, c)
      /\ In(W3, d) = In(W, d) /\ In(W4, e) = In(W, e) /\ W4 \ {e} = {}
  BY DEF In
<1> HIDE DEF W1, W2, W3, W4
<1>3. IsFiniteSet(W1) /\ Cardinality(W) = In(W, a) + Cardinality(W1) /\ Cardinality(W) \in Nat
  BY <1>1, CountOut DEF W1
<1>4. IsFiniteSet(W2) /\ Cardinality(W1) = In(W1, b) + Cardinality(W2)
  BY <1>3, CountOut DEF W2
<1>5. IsFiniteSet(W3) /\ Cardinality(W2) = In(W2, c) + Cardinality(W3)
  BY <1>4, CountOut DEF W3
<1>6. IsFiniteSet(W4) /\ Cardinality(W3) = In(W3, d) + Cardinality(W4)
  BY <1>5, CountOut DEF W4
<1>7. Cardinality(W4) = In(W4, e) + Cardinality(W4 \ {e})
  BY <1>6, CountOut
<1>8. Cardinality(W4 \ {e}) = 0
  BY <1>2, FS_EmptySet
<1>9. \A x : In(W, x) \in Nat
  BY DEF In
<1> QED
  BY <1>1, <1>2, <1>3, <1>4, <1>5, <1>6, <1>7, <1>8, <1>9

(* The elements of a sequence that are not the one that stands for none.   *)
Present(s, none) == Cardinality({k \in DOMAIN s : s[k] # none})

LEMMA PresentAppend ==
  ASSUME NEW S, NEW s \in Seq(S), NEW x, NEW none
  PROVE  /\ Present(s, none) \in Nat
         /\ Present(Append(s, x), none) = Present(s, none) + (IF x = none THEN 0 ELSE 1)
<1> DEFINE K == {k \in DOMAIN s : s[k] # none}
           t == Append(s, x)
           L == {k \in DOMAIN t : t[k] # none}
           n == Len(s)
<1>1. n \in Nat /\ DOMAIN s = 1 .. n /\ n + 1 \notin K
  OBVIOUS
<1>2. DOMAIN t = 1 .. n + 1 /\ t[n + 1] = x /\ \A k \in 1 .. n : t[k] = s[k]
  <2>1. s \in Seq(S \cup {x}) /\ x \in S \cup {x}
    OBVIOUS
  <2> QED
    BY <2>1
<1>3. IsFiniteSet(K) /\ Cardinality(K) \in Nat
  <2>1. IsFiniteSet(1 .. n) /\ K \subseteq 1 .. n
    BY <1>1, FS_Interval
  <2> QED
    BY <2>1, FS_Subset, FS_CardinalityType
<1>4. L = IF x = none THEN K ELSE K \cup {n + 1}
  BY <1>1, <1>2
<1>5. Present(s, none) = Cardinality(K) /\ Present(t, none) = Cardinality(L)
  BY DEF Present
<1> HIDE DEF K, L
<1>6. Cardinality(K \cup {n + 1}) = Cardinality(K) + 1
  BY <1>1, <1>3, FS_AddElement
<1> QED
  BY <1>3, <1>4, <1>5, <1>6

LEMMA FreedAppend ==
  ASSUME NEW S, NEW s \in Seq(S), NEW x
  PROVE  /\ Freed(s) \in Nat /\ Freed(Append(s, x)) \in Nat
         /\ Freed(Append(s, x)) = Freed(s) + One(x)
<1>1. Present(s, NULL) = Freed(s) /\ Present(Append(s, x), NULL) = Freed(Append(s, x))
  BY DEF Present, Freed
<1>2. /\ Present(s, NULL) \in Nat
      /\ Present(Append(s, x), NULL) = Present(s, NULL) + (IF x = NULL THEN 0 ELSE 1)
  BY PresentAppend
<1> QED
  BY <1>1, <1>2, OneIsNat DEF One

LEMMA FreedEmpty == Freed(<<>>) = 0
<1>1. {k \in DOMAIN <<>> : <<>>[k] # NULL} = {}
  OBVIOUS
<1> QED
  BY <1>1, FS_EmptySet DEF Freed

LEMMA FreedOne == ASSUME NEW a PROVE Freed(<<a>>) = One(a)
<1>1. <<>> \in Seq({a}) /\ <<a>> = Append(<<>>, a)
  OBVIOUS
<1>2. Freed(<<a>>) = Freed(<<>>) + One(a)
  BY <1>1, FreedAppend
<1> QED
  BY <1>2, FreedEmpty, OneIsNat

LEMMA FreedTwo == ASSUME NEW a, NEW b PROVE Freed(<<a, b>>) = One(a) + One(b)
<1>1. <<a>> \in Seq({a}) /\ <<a, b>> = Append(<<a>>, b)
  OBVIOUS
<1>2. Freed(<<a, b>>) = Freed(<<a>>) + One(b)
  BY <1>1, FreedAppend
<1> QED
  BY <1>2, FreedOne

LEMMA FreedFive ==
  ASSUME NEW a, NEW b, NEW c, NEW d, NEW e
  PROVE  Freed(<<a, b, c, d, e>>) = One(a) + One(b) + One(c) + One(d) + One(e)
<1> DEFINE S == {a, b, c, d, e}
<1>1. <<a, b>> \in Seq(S) /\ <<a, b, c>> \in Seq(S) /\ <<a, b, c, d>> \in Seq(S)
  OBVIOUS
<1>2. /\ <<a, b, c>> = Append(<<a, b>>, c) /\ <<a, b, c, d>> = Append(<<a, b, c>>, d)
      /\ <<a, b, c, d, e>> = Append(<<a, b, c, d>>, e)
  OBVIOUS
<1> HIDE DEF S
<1>3. Freed(<<a, b, c>>) = Freed(<<a, b>>) + One(c)
  BY <1>1, <1>2, FreedAppend
<1>4. Freed(<<a, b, c, d>>) = Freed(<<a, b, c>>) + One(d)
  BY <1>1, <1>2, FreedAppend
<1>5. Freed(<<a, b, c, d, e>>) = Freed(<<a, b, c, d>>) + One(e)
  BY <1>1, <1>2, FreedAppend
<1> QED
  BY FreedTwo, <1>3, <1>4, <1>5

(* What is freed of a configuration, section by section.                   *)
OfConnection(s) ==
  One(s.remote_host) + One(s.ssh_user) + One(s.ssh_key_path)
    + One(s.compression) + One(s.video_codec)
OfApplication(s) ==
  One(s.executable) + One(s.working_directory) + FreedArray(s.args) + FreedArray(s.env)

LEMMA FreeCountSum ==
  ASSUME NEW c, FreedArray(c.application.args) \in Nat, FreedArray(c.application.env) \in Nat
  PROVE  /\ FreeCount(c) = OfConnection(c.connection) + OfApplication(c.application)
                             + One(c.observability.metrics_file) + One(c.lens.fallback) + 1
         /\ OfConnection(c.connection) \in Nat /\ OfApplication(c.application) \in Nat
<1> DEFINE conn == c.connection
           app == c.application
           a == FreedArray(app.args)
           e == FreedArray(app.env)
<1>1. Freed(<<conn.remote_host, conn.ssh_user, conn.ssh_key_path, conn.compression,
              conn.video_codec>>) = OfConnection(conn)
  BY FreedFive DEF OfConnection
<1>2. Freed(<<app.executable, app.working_directory>>)
        = One(app.executable) + One(app.working_directory)
  BY FreedTwo
<1>3. /\ Freed(<<c.observability.metrics_file>>) = One(c.observability.metrics_file)
      /\ Freed(<<c.lens.fallback>>) = One(c.lens.fallback)
  BY FreedOne
<1>4. FreeCount(c) =
        OfConnection(conn) + (One(app.executable) + One(app.working_directory))
          + a + e + One(c.observability.metrics_file) + One(c.lens.fallback) + 1
  BY <1>1, <1>2, <1>3 DEF FreeCount
<1>5. OfConnection(conn) \in Nat
  BY OneIsNat DEF OfConnection
<1>6. OfApplication(app) = One(app.executable) + One(app.working_directory) + a + e
  BY DEF OfApplication
<1>7. a \in Nat /\ e \in Nat
  OBVIOUS
<1> HIDE DEF a, e, conn, app
<1>8. /\ One(app.executable) \in Nat /\ One(app.working_directory) \in Nat
      /\ One(c.observability.metrics_file) \in Nat /\ One(c.lens.fallback) \in Nat
  BY OneIsNat
<1> QED
  BY <1>4, <1>5, <1>6, <1>7, <1>8 DEF conn, app

(* The blocks of the strings of a connection, ...                          *)
LEMMA ConnectionBlocks ==
  ASSUME NEW object, NEW failed, NEW section,
         \A key \in DOMAIN object : object[key] # NULL,
         Has(object, "remote_host"),
         section.remote_host = Text(object, "remote_host", NULL, failed),
         section.ssh_user = Text(object, "ssh_user", "root", failed),
         section.ssh_key_path = Text(object, "ssh_key_path", NULL, failed),
         section.compression = Text(object, "compression", "lz4", failed),
         section.video_codec = Text(object, "video_codec", "h264", failed)
  PROVE  LET wanted == Strings({"remote_host", "ssh_user", "compression", "video_codec"}
                                 \cup ({"ssh_key_path"} \cap DOMAIN object))
         IN  /\ Cardinality(wanted \ failed) = OfConnection(section)
             /\ OfConnection(section) \in Nat
<1> DEFINE wanted == Strings({"remote_host", "ssh_user", "compression", "video_codec"}
                               \cup ({"ssh_key_path"} \cap DOMAIN object))
           W == wanted \ failed
           at(key) == <<key, 0>>
<1>1. \A key : at(key) \in W <=>
        /\ key \in {"remote_host", "ssh_user", "compression", "video_codec"}
             \cup ({"ssh_key_path"} \cap DOMAIN object)
        /\ at(key) \notin failed
  BY DEF Strings
<1>2. W \subseteq {at("remote_host"), at("ssh_user"), at("ssh_key_path"),
                   at("compression"), at("video_codec")}
  BY DEF Strings
<1>3. \A x, y : x # y => at(x) # at(y)
  OBVIOUS
<1>4. "root" # NULL /\ "lz4" # NULL /\ "h264" # NULL
  BY NullAssumption
<1> HIDE DEF W, wanted
<1>5. In(W, at("remote_host")) = One(section.remote_host)
  BY <1>1 DEF In, One, Text, Dup, Get, Has
<1>6. In(W, at("ssh_user")) = One(section.ssh_user)
  BY <1>1, <1>4 DEF In, One, Text, Dup, Get, Has
<1>7. In(W, at("ssh_key_path")) = One(section.ssh_key_path)
  BY <1>1 DEF In, One, Text, Dup, Get, Has
<1>8. In(W, at("compression")) = One(section.compression)
  BY <1>1, <1>4 DEF In, One, Text, Dup, Get, Has
<1>9. In(W, at("video_codec")) = One(section.video_codec)
  BY <1>1, <1>4 DEF In, One, Text, Dup, Get, Has
<1> HIDE DEF at
<1>10. /\ Cardinality(W) \in Nat
       /\ Cardinality(W) = In(W, at("remote_host")) + In(W, at("ssh_user"))
            + In(W, at("ssh_key_path")) + In(W, at("compression")) + In(W, at("video_codec"))
  BY <1>2, <1>3, CountFive
<1>11. Cardinality(W) = OfConnection(section)
  BY <1>5, <1>6, <1>7, <1>8, <1>9, <1>10 DEF OfConnection
<1> QED
  BY <1>10, <1>11 DEF W, wanted

(* ... of an array and of its elements, ...                                *)
LEMMA ArrayBlocks ==
  ASSUME NEW key, NEW failed, NEW value, value = NULL \/ value \in Seq(STRING),
         <<key, 0>> \notin failed
  PROVE  /\ IsFiniteSet(Array(key, value) \ failed)
         /\ Cardinality(Array(key, value) \ failed) = FreedArray(Copied(key, value, failed))
         /\ FreedArray(Copied(key, value, failed)) \in Nat
         /\ value # NULL => Copied(key, value, failed) \in Seq(STRING \cup {NULL})
<1>1. CASE value = NULL
  BY <1>1, FS_EmptySet DEF Array, Copied, FreedArray
<1>2. CASE value # NULL
  <2> DEFINE n == Len(value)
             copied == Copied(key, value, failed)
             K == {k \in 1 .. n : <<key, k>> \notin failed}
             T == {<<key, k>> : k \in K}
             f == [k \in K |-> <<key, k>>]
  <2>1. n \in Nat /\ DOMAIN value = 1 .. n /\ \A k \in 1 .. n : value[k] \in STRING /\ value[k] # NULL
    <3>1. value \in Seq(STRING)
      BY <1>2
    <3>2. n \in Nat /\ DOMAIN value = 1 .. n /\ \A k \in 1 .. n : value[k] \in STRING
      BY <3>1
    <3> QED
      BY <3>2, NullFacts
  <2>2. copied = [k \in 1 .. n |-> IF <<key, k>> \in failed THEN NULL ELSE value[k]]
    BY <1>2, <2>1 DEF Copied
  <2>3. copied \in Seq(STRING \cup {NULL}) /\ copied # NULL
    <3>1. copied \in [1 .. n -> STRING \cup {NULL}]
      BY <2>1, <2>2
    <3>2. copied \in Seq(STRING \cup {NULL})
      BY <2>1, <3>1
    <3> QED
      BY <3>2, NullAssumption
  <2>4. {k \in DOMAIN copied : copied[k] # NULL} = K
    BY <2>1, <2>2
  <2>5. IsFiniteSet(K) /\ Cardinality(K) \in Nat
    <3>1. IsFiniteSet(1 .. n) /\ K \subseteq 1 .. n
      BY <2>1, FS_Interval
    <3> QED
      BY <3>1, FS_Subset, FS_CardinalityType
  <2>6. IsFiniteSet(T) /\ Cardinality(T) = Cardinality(K)
    <3>1. f \in Surjection(K, T) /\ f \in Injection(K, T)
      BY DEF Surjection, Injection, IsInjective
    <3> HIDE DEF f, K, T
    <3> QED
      BY <2>5, <3>1, FS_Surjection
  <2>7. Array(key, value) \ failed = T \cup {<<key, 0>>} /\ <<key, 0>> \notin T
    <3>1. Array(key, value) = {<<key, i>> : i \in 0 .. n}
      BY <1>2 DEF Array
    <3>2. <<key, 0>> \notin T
      <4>1. \A k \in K : k # 0
        BY <2>1
      <4>2. \A k \in K : <<key, k>> # <<key, 0>>
        BY <4>1
      <4> QED
        BY <4>2
    <3>3. \A i \in 0 .. n : <<key, i>> \notin failed => i = 0 \/ i \in K
      BY <2>1
    <3>4. T \cup {<<key, 0>>} \subseteq Array(key, value) \ failed
      <4>1. K \subseteq 0 .. n /\ 0 \in 0 .. n
        BY <2>1
      <4>2. T \subseteq Array(key, value) \ failed
        BY <3>1, <4>1
      <4>3. <<key, 0>> \in Array(key, value) \ failed
        BY <3>1, <4>1
      <4> QED
        BY <4>2, <4>3
    <3>5. Array(key, value) \ failed \subseteq T \cup {<<key, 0>>}
      BY <3>1, <3>3
    <3> QED
      BY <3>2, <3>4, <3>5
  <2>8. FreedArray(copied) = Cardinality(K) + 1
    BY <2>3, <2>4 DEF FreedArray, Freed
  <2>10. FreedArray(copied) \in Nat
    BY <2>5, <2>8
  <2> HIDE DEF K, T, copied
  <2>9. /\ IsFiniteSet(T \cup {<<key, 0>>})
        /\ Cardinality(T \cup {<<key, 0>>}) = Cardinality(K) + 1
    BY <2>5, <2>6, <2>7, FS_AddElement
  <2> QED
    BY <2>3, <2>7, <2>8, <2>9, <2>10 DEF copied
<1> QED
  BY <1>1, <1>2

(* ... and of an application.                                              *)
ApplicationWanted(object, args, env) ==
  Strings({"executable", "working_directory"} \cap DOMAIN object)
    \cup Array("args", args) \cup Array("env", env)
ApplicationMade(object, args, env, failed, section) ==
  /\ \A key \in DOMAIN object : object[key] # NULL
  /\ Has(object, "executable")
  /\ args = NULL \/ args \in Seq(STRING)
  /\ env = NULL \/ env \in Seq(STRING)
  /\ failed \cap ({<<"args", 0>>} \cup Array("env", env)) = {}
  /\ section.executable = Text(object, "executable", NULL, failed)
  /\ section.working_directory = Text(object, "working_directory", NULL, failed)
  /\ section.args = Copied("args", args, failed)
  /\ section.env = env

LEMMA ApplicationBlocks ==
  ASSUME NEW object, NEW args, NEW env, NEW failed, NEW section,
         ApplicationMade(object, args, env, failed, section)
  PROVE  /\ Cardinality(ApplicationWanted(object, args, env) \ failed) = OfApplication(section)
         /\ FreedArray(section.args) \in Nat /\ FreedArray(section.env) \in Nat
<1> DEFINE X == Strings({"executable", "working_directory"} \cap DOMAIN object) \ failed
           Y == Array("args", args) \ failed
           Z == Array("env", env) \ failed
           at(key) == <<key, 0>>
<1>0. /\ \A key \in DOMAIN object : object[key] # NULL
      /\ Has(object, "executable")
      /\ args = NULL \/ args \in Seq(STRING)
      /\ env = NULL \/ env \in Seq(STRING)
      /\ failed \cap ({<<"args", 0>>} \cup Array("env", env)) = {}
      /\ section.executable = Text(object, "executable", NULL, failed)
      /\ section.working_directory = Text(object, "working_directory", NULL, failed)
      /\ section.args = Copied("args", args, failed)
      /\ section.env = env
  BY DEF ApplicationMade
<1>1. /\ IsFiniteSet(Y) /\ Cardinality(Y) = FreedArray(section.args)
      /\ FreedArray(section.args) \in Nat
  BY <1>0, ArrayBlocks
<1>2. /\ IsFiniteSet(Z) /\ Cardinality(Z) = FreedArray(section.env)
      /\ FreedArray(section.env) \in Nat
  <2>1. CASE env = NULL
    BY <1>0, <2>1, FS_EmptySet DEF Array, FreedArray
  <2>2. CASE env # NULL
    <3>1. env \in Seq(STRING) /\ Len(env) \in Nat /\ DOMAIN env = 1 .. Len(env)
      BY <1>0, <2>2
    <3>2. Array("env", env) = {<<"env", i>> : i \in 0 .. Len(env)}
      BY <2>2 DEF Array
    <3>3. \A i \in 0 .. Len(env) : <<"env", i>> \notin failed
      BY <1>0, <3>2
    <3>4. <<"env", 0>> \notin failed /\ \A i \in DOMAIN env : <<"env", i>> \notin failed
      BY <3>1, <3>3
    <3>5. Copied("env", env, failed) = [i \in DOMAIN env |-> env[i]]
      BY <2>2, <3>4 DEF Copied
    <3>6. Copied("env", env, failed) = env
      BY <3>1, <3>5
    <3> QED
      BY <1>0, <3>1, <3>4, <3>6, ArrayBlocks
  <2> QED
    BY <2>1, <2>2
<1>3. /\ IsFiniteSet(X)
      /\ Cardinality(X) = One(section.executable) + One(section.working_directory)
  <2>1. \A key : at(key) \in X <=>
          key \in {"executable", "working_directory"} \cap DOMAIN object /\ at(key) \notin failed
    BY DEF Strings
  <2>2. X \subseteq {at("executable"), at("working_directory")}
    BY DEF Strings
  <2>3. \A x, y : x # y => at(x) # at(y)
    OBVIOUS
  <2> HIDE DEF X
  <2>4. In(X, at("executable")) = One(section.executable)
    BY <1>0, <2>1 DEF In, One, Text, Dup, Get, Has
  <2>5. In(X, at("working_directory")) = One(section.working_directory)
    BY <1>0, <2>1 DEF In, One, Text, Dup, Get, Has
  <2> HIDE DEF at
  <2>6. IsFiniteSet(X)
    <3>1. IsFiniteSet({at("executable")} \cup {at("working_directory")})
      BY FS_Singleton, FS_Union
    <3> QED
      BY <2>2, <3>1, FS_Subset
  <2>7. (X \ {at("executable")}) \ {at("working_directory")} = {}
    BY <2>2
  <2>8. In(X \ {at("executable")}, at("working_directory")) = In(X, at("working_directory"))
    BY <2>3 DEF In
  <2>9. /\ Cardinality(X) = In(X, at("executable")) + Cardinality(X \ {at("executable")})
        /\ IsFiniteSet(X \ {at("executable")})
    BY <2>6, CountOut
  <2>10. Cardinality(X \ {at("executable")})
           = In(X, at("working_directory")) + Cardinality({})
    BY <2>7, <2>8, <2>9, CountOut
  <2> QED
    BY <2>4, <2>5, <2>6, <2>9, <2>10, FS_EmptySet, OneIsNat
<1>4. X \cap Y = {} /\ (X \cup Y) \cap Z = {}
  BY DEF Strings, Array
<1>5. ApplicationWanted(object, args, env) \ failed = X \cup Y \cup Z
  BY DEF ApplicationWanted
<1> HIDE DEF X, Y, Z
<1>6. IsFiniteSet(X \cup Y) /\ Cardinality(X \cup Y) = Cardinality(X) + Cardinality(Y)
  <2>1. Cardinality(X \cap Y) = 0
    BY <1>4, FS_EmptySet
  <2>2. /\ IsFiniteSet(X \cup Y)
        /\ Cardinality(X \cup Y) = Cardinality(X) + Cardinality(Y) - Cardinality(X \cap Y)
    BY <1>1, <1>3, FS_Union
  <2>3. Cardinality(X) \in Nat /\ Cardinality(Y) \in Nat
    BY <1>1, <1>3, FS_CardinalityType
  <2> QED
    BY <2>1, <2>2, <2>3
<1>7. Cardinality(X \cup Y \cup Z) = Cardinality(X \cup Y) + Cardinality(Z)
  <2>1. Cardinality((X \cup Y) \cap Z) = 0
    BY <1>4, FS_EmptySet
  <2>2. Cardinality(X \cup Y \cup Z)
          = Cardinality(X \cup Y) + Cardinality(Z) - Cardinality((X \cup Y) \cap Z)
    BY <1>2, <1>6, FS_Union
  <2>3. Cardinality(X \cup Y) \in Nat /\ Cardinality(Z) \in Nat
    BY <1>2, <1>6, FS_CardinalityType
  <2> QED
    BY <2>1, <2>2, <2>3
<1>8. One(section.executable) \in Nat /\ One(section.working_directory) \in Nat
  BY OneIsNat
<1>9. Cardinality(X \cup Y \cup Z) = OfApplication(section)
  BY <1>1, <1>2, <1>3, <1>6, <1>7, <1>8 DEF OfApplication
<1> QED
  BY <1>1, <1>2, <1>5, <1>9

(***************************************************************************)
(* Every block has one owner.                                              *)
(***************************************************************************)

LEMMA FreedIsNat == ASSUME NEW S, NEW s \in Seq(S) PROVE Freed(s) \in Nat
  BY FreedAppend

LEMMA BlocksOfWords ==
  ASSUME NEW S, NEW s \in Seq(S), NEW x
  PROVE  /\ Blocks(s) \in Nat
         /\ Blocks(Append(s, x)) = Blocks(s) + (IF x = Missing THEN 0 ELSE 1)
<1>1. /\ Present(s, Missing) \in Nat
      /\ Present(Append(s, x), Missing) = Present(s, Missing) + (IF x = Missing THEN 0 ELSE 1)
  BY PresentAppend
<1>2. /\ Blocks(s) = 1 + Present(s, Missing)
      /\ Blocks(Append(s, x)) = 1 + Present(Append(s, x), Missing)
  BY DEF Blocks, Present
<1> QED
  BY <1>1, <1>2

Texts == {"remote_host", "ssh_user", "ssh_key_path", "compression", "video_codec"}
Lenses == {"waypipe", "sunshine", "moonlight"}

(* A configuration whose values have their types, section by section.      *)
ConnectionShape(s) ==
  /\ DOMAIN s = Texts \cup {"remote_port", "bandwidth_limit"}
  /\ s.remote_port \in Ports
ListShape(list) == list = NULL \/ list \in Seq(STRING \cup {NULL})
ApplicationShape(s) == ListShape(s.args) /\ ListShape(s.env)
PerformanceShape(s) == s.profile \in Profiles
ObservabilityShape(s) == s.log_level \in LogLevels
LensShape(s) ==
  s.type \in LensTypes /\ (s.fallback = NULL \/ s.fallback \in Seq(Lenses))
ConfigShape(c) ==
  /\ DOMAIN c = {"connection", "application", "performance", "observability", "lens"}
  /\ ConnectionShape(c.connection) /\ ApplicationShape(c.application)
  /\ PerformanceShape(c.performance) /\ ObservabilityShape(c.observability)
  /\ LensShape(c.lens)

(* The blocks of a configuration, and those of the builder's vector.       *)
Held(c) ==
  OfConnection(c.connection) + OfApplication(c.application)
    + One(c.observability.metrics_file) + One(c.lens.fallback) + 1
Building == IF argv = NoVector THEN 0 ELSE Blocks(argv.words)

(* What the loader has not parsed yet holds nothing.                       *)
Unparsed ==
  /\ pc = "connection" => OfConnection(config.connection) = 0
  /\ pc \in {"connection", "application"} => OfApplication(config.application) = 0
  /\ pc \in {"connection", "application", "performance", "observability"} =>
       One(config.observability.metrics_file) = 0
  /\ pc \in {"connection", "application", "performance", "observability", "lens"} =>
       One(config.lens.fallback) = 0

(* The builder is one of the lenses to try, and somewhere in its arguments. *)
Underway ==
  argv # NoVector =>
    /\ pc \in {"ready", "crashed"}
    /\ {"lens", "done", "words"} \subseteq DOMAIN argv
    /\ argv.lens \in Candidates(config)
    /\ argv.done \in 0 .. Len(Arguments(argv.lens, config))
    /\ \E S : argv.words \in Seq(S)

BalanceInv ==
  /\ pc \in Parsing \cup {"none", "crashed"}
  /\ lost \in Nat
  /\ pc \in Parsing => document \in Documents
  /\ pc # "none" => ConfigShape(config)
  /\ Unparsed
  /\ Underway
  /\ live = lost + (IF pc = "none" THEN 0 ELSE Held(config)) + Building

LEMMA HeldIsNat ==
  ASSUME NEW c, ConfigShape(c)
  PROVE  /\ OfConnection(c.connection) \in Nat /\ OfApplication(c.application) \in Nat
         /\ One(c.observability.metrics_file) \in Nat /\ One(c.lens.fallback) \in Nat
         /\ Held(c) \in Nat /\ Held(c) = FreeCount(c)
<1>1. ASSUME NEW list, ListShape(list)
      PROVE  FreedArray(list) \in Nat
  BY <1>1, FreedIsNat DEF FreedArray, ListShape
<1>2. FreedArray(c.application.args) \in Nat /\ FreedArray(c.application.env) \in Nat
  BY <1>1 DEF ConfigShape, ApplicationShape
<1>3. OfConnection(c.connection) \in Nat /\ OfApplication(c.application) \in Nat
  BY <1>2, FreeCountSum
<1>4. Held(c) = FreeCount(c)
  BY <1>2, FreeCountSum DEF Held
<1> QED
  BY <1>3, <1>4, OneIsNat DEF Held

LEMMA BuildingIsNat == ASSUME BalanceInv PROVE Building \in Nat
<1>1. CASE argv = NoVector
  BY <1>1 DEF Building
<1>2. CASE argv # NoVector
  <2>1. PICK S : argv.words \in Seq(S)
    BY <1>2 DEF BalanceInv, Underway
  <2> QED
    BY <1>2, <2>1, BlocksOfWords DEF Building
<1> QED
  BY <1>1, <1>2

(* A step that parses a section, and one that ends the program instead.    *)
LEMMA ParsedBalance ==
  ASSUME BalanceInv, NEW name, NEW section, NEW wanted, NEW failed,
         NEW next \in Parsing \ {"connection"}, pc \in Parsing,
         Parsed(name, section, wanted, failed, next),
         argv = NoVector, argv' = NoVector, ConfigShape(config'), Unparsed',
         Cardinality(wanted \ failed) \in Nat,
         Held(config') = Held(config) + Cardinality(wanted \ failed)
  PROVE  BalanceInv'
<1>1. /\ live' = live + Cardinality(wanted \ failed) /\ lost' = lost
      /\ pc' = next /\ document' = document
  BY DEF Parsed, Allocated
<1>2. Building = 0 /\ Building' = 0
  BY DEF Building
<1>3. pc # "none" /\ pc' # "none" /\ pc' \in Parsing
  BY <1>1 DEF Parsing
<1>4. ConfigShape(config) /\ lost \in Nat /\ document \in Documents
  BY <1>3 DEF BalanceInv
<1>5. live = lost + Held(config) + Building
  BY <1>3 DEF BalanceInv
<1>6. Held(config) \in Nat
  BY <1>4, HeldIsNat
<1>7. live' = lost' + Held(config') + Building'
  BY <1>1, <1>2, <1>4, <1>5, <1>6
<1>8. Underway'
  BY DEF Underway
<1>9. pc' \in Parsing \cup {"none", "crashed"}
  BY <1>3
<1> QED
  BY <1>1, <1>3, <1>4, <1>7, <1>8, <1>9 DEF BalanceInv

LEMMA CrashBalance ==
  ASSUME BalanceInv, pc \in Parsing, NEW failed, Crash(failed),
         argv = NoVector, argv' = NoVector
  PROVE  BalanceInv'
<1>1. pc' = "crashed" /\ config' = config /\ live' = live /\ lost' = lost
  BY DEF Crash
<1>2. pc # "none" /\ "crashed" \notin Parsing
  BY DEF Parsing
<1>3. Building' = Building /\ Underway'
  BY DEF Building, Underway
<1>4. Unparsed'
  BY <1>1 DEF Unparsed
<1> QED
  BY <1>1, <1>2, <1>3, <1>4 DEF BalanceInv

Word(n) == n % 65536
LEMMA WordRange == ASSUME NEW n \in Int PROVE Word(n) \in Ports
<1>1. n % 65536 \in Int /\ 0 <= n % 65536 /\ n % 65536 < 65536
  BY ONLY n \in Int, SMTT(60)
<1> QED
  BY <1>1 DEF Word, Ports

LEMMA PortType ==
  ASSUME NEW object, NEW port, port = Get(object, "remote_port", 22) % 65536,
         \A key \in DOMAIN object : object[key] # NULL /\ object[key] \in Readably(key)
  PROVE  port \in Ports
<1> DEFINE n == Get(object, "remote_port", 22)
<1>1. n \in Int
  BY DEF Get, Has, Readably, Lists
<1>2. port = Word(n)
  BY DEF Word
<1> HIDE DEF n
<1> QED
  BY <1>1, <1>2, WordRange

LEMMA ConnectionBalance ==
  ASSUME BalanceInv, ParseConnection, argv = NoVector, argv' = NoVector
  PROVE  BalanceInv'
<1> DEFINE object == Section("connection")
           wanted == Strings({"remote_host", "ssh_user", "compression", "video_codec"}
                               \cup ({"ssh_key_path"} \cap DOMAIN object))
<1>1. PICK failed, section :
         /\ failed \in Shortfalls(wanted)
         /\ Parsed("connection", section, wanted, failed, "application")
         /\ DOMAIN section = Texts \cup {"remote_port", "bandwidth_limit"}
         /\ section.remote_host = Text(object, "remote_host", NULL, failed)
         /\ section.remote_port = Get(object, "remote_port", 22) % 65536
         /\ section.ssh_user = Text(object, "ssh_user", "root", failed)
         /\ section.ssh_key_path = Text(object, "ssh_key_path", NULL, failed)
         /\ section.compression = Text(object, "compression", "lz4", failed)
         /\ section.video_codec = Text(object, "video_codec", "h264", failed)
  BY DEF ParseConnection, Texts
<1>2. /\ pc = "connection" /\ Has(document, "connection")
      /\ Has(document["connection"], "remote_host")
  BY DEF ParseConnection, Complete, RequiredKey
<1>3. document \in Documents /\ ConfigShape(config) /\ Unparsed
  BY <1>2 DEF BalanceInv, Parsing
<1>4. Has(object, "remote_host")
  BY <1>2 DEF Section, Get
<1>5. \A key \in DOMAIN object : object[key] # NULL /\ object[key] \in Readably(key)
  <2>1. Read("connection")
    BY DEF ParseConnection, Read
  <2> QED
    BY <1>3, <2>1, SectionTypes
<1>6. section.remote_port \in Ports
  <2>1. section.remote_port = Get(object, "remote_port", 22) % 65536
    BY <1>1
  <2> HIDE DEF object, wanted
  <2> QED
    BY <1>5, <2>1, PortType
<1>7. Cardinality(wanted \ failed) = OfConnection(section) /\ OfConnection(section) \in Nat
  BY <1>1, <1>4, <1>5, ConnectionBlocks
<1>8. config' = [config EXCEPT !["connection"] = section] /\ pc' = "application"
  BY <1>1 DEF Parsed
<1> HIDE DEF object, wanted
<1>13. {"connection", "application", "performance", "observability", "lens"} = DOMAIN config
  BY <1>3 DEF ConfigShape
<1>9. /\ config'.connection = section /\ DOMAIN config' = DOMAIN config
      /\ config'.application = config.application
      /\ config'.performance = config.performance
      /\ config'.observability = config.observability /\ config'.lens = config.lens
  BY <1>8, <1>13
<1>14. ConnectionShape(section)
  <2>1. DOMAIN section = Texts \cup {"remote_port", "bandwidth_limit"}
    BY <1>1
  <2> QED
    BY <1>6, <2>1 DEF ConnectionShape
<1>10. ConfigShape(config')
  BY <1>3, <1>9, <1>14 DEF ConfigShape
<1>11. Unparsed'
  BY <1>2, <1>3, <1>8, <1>9 DEF Unparsed
<1>12. Held(config') = Held(config) + Cardinality(wanted \ failed)
  <2>1. OfConnection(config.connection) = 0
    BY <1>2, <1>3 DEF Unparsed
  <2> QED
    BY <1>3, <1>7, <1>9, <1>10, <2>1, HeldIsNat DEF Held
<1> QED
  BY <1>1, <1>2, <1>7, <1>10, <1>11, <1>12, ParsedBalance DEF Parsing

LEMMA ApplicationBalance ==
  ASSUME BalanceInv, ParseApplication, argv = NoVector, argv' = NoVector
  PROVE  BalanceInv'
<1> DEFINE object == Section("application")
           args == Get(object, "args", NULL)
           env == IF Get(object, "env", <<>>) = <<>> THEN NULL ELSE object["env"]
           wanted == Strings({"executable", "working_directory"} \cap DOMAIN object)
                       \cup Array("args", args) \cup Array("env", env)
<1>1. /\ pc = "application" /\ Has(document, "application")
      /\ Has(document["application"], "executable")
  BY DEF ParseApplication, Complete, RequiredKey
<1>2. CASE \E failed : Crash(failed)
  BY <1>1, <1>2, CrashBalance DEF Parsing
<1>3. ASSUME NEW failed, NEW section,
             failed \cap ({<<"args", 0>>} \cup Array("env", env)) = {},
             Parsed("application", section, wanted, failed, "performance"),
             section.executable = Text(object, "executable", NULL, failed),
             section.args = Copied("args", args, failed), section.env = env,
             section.working_directory = Text(object, "working_directory", NULL, failed)
      PROVE  BalanceInv'
  <2>1. document \in Documents /\ ConfigShape(config) /\ Unparsed
    BY <1>1 DEF BalanceInv, Parsing
  <2>2. Has(object, "executable")
    BY <1>1 DEF Section, Get
  <2>3. \A key \in DOMAIN object : object[key] # NULL /\ object[key] \in Readably(key)
    <3>1. Read("application")
      BY DEF ParseApplication, Read
    <3> QED
      BY <2>1, <3>1, SectionTypes
  <2>4. Readably("args") = Seq(STRING) /\ Readably("env") = Seq(STRING)
    BY DEF Readably, Lists
  <2>5. args = NULL \/ args \in Seq(STRING)
    BY <2>3, <2>4 DEF Get, Has
  <2>6. env = NULL \/ env \in Seq(STRING)
    BY <2>3, <2>4 DEF Get, Has
  <2>7. config' = [config EXCEPT !["application"] = section] /\ pc' = "performance"
    BY <1>3 DEF Parsed
  <2>8. /\ Cardinality(wanted \ failed) = OfApplication(section)
        /\ FreedArray(section.args) \in Nat /\ FreedArray(section.env) \in Nat
    <3>1. ApplicationMade(object, args, env, failed, section)
      BY <1>3, <2>2, <2>3, <2>5, <2>6 DEF ApplicationMade
    <3>2. wanted = ApplicationWanted(object, args, env)
      BY DEF ApplicationWanted
    <3> HIDE DEF object, args, env, wanted
    <3> QED
      BY <3>1, <3>2, ApplicationBlocks
  <2>9. ListShape(section.args)
    <3>1. <<"args", 0>> \notin failed
      BY <1>3
    <3>2. args # NULL => Copied("args", args, failed) \in Seq(STRING \cup {NULL})
      BY <2>5, <3>1, ArrayBlocks
    <3>3. args = NULL => Copied("args", args, failed) = NULL
      BY DEF Copied
    <3> QED
      BY <1>3, <3>2, <3>3 DEF ListShape
  <2>10. ListShape(section.env)
    <3>1. Seq(STRING) \subseteq Seq(STRING \cup {NULL})
      OBVIOUS
    <3> QED
      BY <1>3, <2>6, <3>1 DEF ListShape
  <2> HIDE DEF object, args, env, wanted
  <2>16. {"connection", "application", "performance", "observability", "lens"} = DOMAIN config
    BY <2>1 DEF ConfigShape
  <2>11. /\ config'.application = section /\ DOMAIN config' = DOMAIN config
         /\ config'.connection = config.connection
         /\ config'.performance = config.performance
         /\ config'.observability = config.observability /\ config'.lens = config.lens
    BY <2>7, <2>16
  <2>12. ConfigShape(config')
    BY <2>1, <2>9, <2>10, <2>11 DEF ConfigShape, ApplicationShape
  <2>13. Unparsed'
    BY <1>1, <2>1, <2>7, <2>11 DEF Unparsed
  <2>14. OfApplication(section) \in Nat
    BY <2>11, <2>12, HeldIsNat
  <2>15. Held(config') = Held(config) + Cardinality(wanted \ failed)
    <3>1. OfApplication(config.application) = 0
      BY <1>1, <2>1 DEF Unparsed
    <3> QED
      BY <2>1, <2>8, <2>11, <2>14, <3>1, HeldIsNat DEF Held
  <2> QED
    BY <1>1, <1>3, <2>8, <2>12, <2>13, <2>14, <2>15, ParsedBalance DEF Parsing
<1>4. ASSUME ~(\E failed : Crash(failed)) PROVE BalanceInv'
  <2>1. PICK failed :
          /\ failed \cap ({<<"args", 0>>} \cup Array("env", env)) = {}
          /\ Parsed("application",
               [executable |-> Text(object, "executable", NULL, failed),
                args |-> Copied("args", args, failed),
                env |-> env,
                working_directory |->
                  Text(object, "working_directory", NULL, failed)],
               wanted, failed, "performance")
    BY <1>4 DEF ParseApplication
  <2> HIDE DEF object, args, env, wanted
  <2> QED
    BY <1>3, <2>1
<1> QED
  BY <1>2, <1>4

LEMMA CountOne ==
  ASSUME NEW a, NEW W \in SUBSET {a}
  PROVE  Cardinality(W) \in Nat /\ Cardinality(W) = In(W, a)
<1>1. IsFiniteSet(W)
  BY FS_Singleton, FS_Subset
<1>2. W \ {a} = {} /\ Cardinality({}) = 0
  BY FS_EmptySet
<1>3. Cardinality(W) \in Nat /\ Cardinality(W) = In(W, a) + Cardinality(W \ {a})
  BY <1>1, CountOut
<1>4. In(W, a) \in Nat
  BY DEF In
<1> QED
  BY <1>2, <1>3, <1>4

LEMMA CountTwo ==
  ASSUME NEW a, NEW b, a # b, NEW W \in SUBSET {a, b}
  PROVE  Cardinality(W) \in Nat /\ Cardinality(W) = In(W, a) + In(W, b)
<1> DEFINE V == W \ {a}
<1>1. IsFiniteSet(W)
  <2>1. IsFiniteSet({a} \cup {b})
    BY FS_Singleton, FS_Union
  <2> QED
    BY <2>1, FS_Subset
<1>2. V \in SUBSET {b} /\ In(V, b) = In(W, b)
  BY DEF In
<1>3. Cardinality(W) \in Nat /\ Cardinality(W) = In(W, a) + Cardinality(V)
  BY <1>1, CountOut
<1> HIDE DEF V
<1>4. Cardinality(V) = In(V, b)
  BY <1>2, CountOne
<1> QED
  BY <1>2, <1>3, <1>4

LEMMA BeginLoadBalance ==
  ASSUME BalanceInv, NEW d \in Documents, BeginLoad(d), argv = NoVector, argv' = NoVector
  PROVE  BalanceInv'
<1>1. /\ pc = "none" /\ pc' = "connection" /\ document' = d /\ config' = Zero
      /\ live' = live + 1 /\ lost' = lost
  BY DEF BeginLoad
<1>2. /\ OfConnection(Zero.connection) = 0 /\ OfApplication(Zero.application) = 0
      /\ One(Zero.observability.metrics_file) = 0 /\ One(Zero.lens.fallback) = 0
  BY DEF Zero, OfConnection, OfApplication, One, FreedArray
<1>3. ConfigShape(Zero)
  <2>1. DOMAIN Zero = {"connection", "application", "performance", "observability", "lens"}
    BY DEF Zero
  <2>2. ConnectionShape(Zero.connection)
    <3>1. Zero.connection = [remote_host |-> NULL, remote_port |-> 0, ssh_user |-> NULL,
            ssh_key_path |-> NULL, compression |-> NULL, video_codec |-> NULL,
            bandwidth_limit |-> 0]
      BY DEF Zero
    <3>2. DOMAIN Zero.connection = Texts \cup {"remote_port", "bandwidth_limit"}
      BY <3>1 DEF Texts
    <3>3. Zero.connection.remote_port \in Ports
      BY <3>1 DEF Ports
    <3> QED
      BY <3>2, <3>3 DEF ConnectionShape
  <2>3. ApplicationShape(Zero.application)
    BY DEF Zero, ApplicationShape, ListShape
  <2>4. PerformanceShape(Zero.performance)
    BY DEF Zero, PerformanceShape, Profiles
  <2>5. ObservabilityShape(Zero.observability) /\ LensShape(Zero.lens)
    BY DEF Zero, ObservabilityShape, LogLevels, LensShape, LensTypes
  <2> QED
    BY <2>1, <2>2, <2>3, <2>4, <2>5 DEF ConfigShape
<1>4. Held(Zero) = 1
  BY <1>2 DEF Held
<1>5. Unparsed'
  BY <1>1, <1>2 DEF Unparsed
<1>6. Building = 0 /\ Building' = 0 /\ Underway'
  BY DEF Building, Underway
<1>7. lost \in Nat /\ live = lost + 0 + Building
  BY <1>1 DEF BalanceInv
<1>8. live' = lost' + Held(config') + Building'
  BY <1>1, <1>4, <1>6, <1>7
<1> QED
  BY <1>1, <1>3, <1>5, <1>6, <1>7, <1>8 DEF BalanceInv, Parsing

(* What a rejected load leaves behind is what its connection held.         *)
LEMMA RejectBalance ==
  ASSUME BalanceInv, Reject, argv = NoVector, argv' = NoVector
  PROVE  BalanceInv'
<1> DEFINE conn == config.connection
           K == {key \in DOMAIN conn \ {"remote_port", "bandwidth_limit"} : conn[key] # NULL}
<1>1. pc \in {"connection", "application"}
  BY DEF Reject, RequiredKey
<1>2. pc' = "none" /\ live' = live - 1 /\ lost' = lost + Cardinality(K)
  BY DEF Reject
<1>3. ConfigShape(config) /\ Unparsed /\ lost \in Nat /\ live = lost + Held(config) + Building
  BY <1>1 DEF BalanceInv
<1>4. Building = 0 /\ Building' = 0 /\ Underway'
  BY DEF Building, Underway
<1>5. K \in SUBSET {"remote_host", "ssh_user", "ssh_key_path", "compression", "video_codec"}
      /\ In(K, "remote_host") = One(conn.remote_host)
      /\ In(K, "ssh_user") = One(conn.ssh_user)
      /\ In(K, "ssh_key_path") = One(conn.ssh_key_path)
      /\ In(K, "compression") = One(conn.compression)
      /\ In(K, "video_codec") = One(conn.video_codec)
  <2>1. DOMAIN conn = Texts \cup {"remote_port", "bandwidth_limit"}
    BY <1>3 DEF ConfigShape, ConnectionShape
  <2> HIDE DEF conn
  <2> QED
    BY <2>1 DEF Texts, In, One
<1>6. Cardinality(K) = OfConnection(conn)
  <2> DEFINE at(key) == key
  <2>1. K \in SUBSET {at("remote_host"), at("ssh_user"), at("ssh_key_path"),
                      at("compression"), at("video_codec")}
    BY <1>5
  <2>2. /\ In(K, at("remote_host")) = One(conn.remote_host)
        /\ In(K, at("ssh_user")) = One(conn.ssh_user)
        /\ In(K, at("ssh_key_path")) = One(conn.ssh_key_path)
        /\ In(K, at("compression")) = One(conn.compression)
        /\ In(K, at("video_codec")) = One(conn.video_codec)
    BY <1>5
  <2>3. \A x, y : x # y => at(x) # at(y)
    OBVIOUS
  <2> HIDE DEF K, at
  <2>4. Cardinality(K) = In(K, at("remote_host")) + In(K, at("ssh_user"))
          + In(K, at("ssh_key_path")) + In(K, at("compression")) + In(K, at("video_codec"))
    BY <2>1, <2>3, CountFive
  <2> QED
    BY <2>2, <2>4 DEF OfConnection
<1>7. Held(config) = OfConnection(conn) + 1
  <2>1. /\ OfApplication(config.application) = 0
        /\ One(config.observability.metrics_file) = 0 /\ One(config.lens.fallback) = 0
    BY <1>1, <1>3 DEF Unparsed
  <2>2. OfConnection(conn) \in Nat
    BY <1>3, HeldIsNat
  <2> QED
    BY <2>1, <2>2 DEF Held
<1>8. lost' \in Nat /\ live' = lost' + 0 + Building'
  <2>1. OfConnection(conn) \in Nat
    BY <1>3, HeldIsNat
  <2> HIDE DEF K, conn
  <2> QED
    BY <1>2, <1>3, <1>4, <1>6, <1>7, <2>1
<1>9. Unparsed'
  BY <1>2 DEF Unparsed
<1> QED
  BY <1>2, <1>4, <1>8, <1>9 DEF BalanceInv, Parsing

LEMMA PerformanceBalance ==
  ASSUME BalanceInv, ParsePerformance, argv = NoVector, argv' = NoVector
  PROVE  BalanceInv'
<1>1. PICK section :
        /\ Parsed("performance", section, {}, {}, "observability")
        /\ section.profile =
             OneOf(Profiles, Get(Section("performance"), "profile", "balanced"), "balanced")
  BY DEF ParsePerformance
<1>2. pc = "performance"
  BY DEF ParsePerformance
<1>3. ConfigShape(config) /\ Unparsed
  BY <1>2 DEF BalanceInv
<1>4. PerformanceShape(section)
  BY <1>1 DEF PerformanceShape, OneOf, Profiles
<1>5. config' = [config EXCEPT !["performance"] = section] /\ pc' = "observability"
  BY <1>1 DEF Parsed
<1>6. {"connection", "application", "performance", "observability", "lens"} = DOMAIN config
  BY <1>3 DEF ConfigShape
<1>7. /\ config'.performance = section /\ DOMAIN config' = DOMAIN config
      /\ config'.connection = config.connection
      /\ config'.application = config.application
      /\ config'.observability = config.observability /\ config'.lens = config.lens
  BY <1>5, <1>6
<1>8. ConfigShape(config')
  BY <1>3, <1>4, <1>7 DEF ConfigShape
<1>9. Unparsed'
  BY <1>2, <1>3, <1>5, <1>7 DEF Unparsed
<1>10. {} \ {} = {} /\ Cardinality({}) = 0
  BY FS_EmptySet
<1>11. Held(config') = Held(config) + 0 /\ Held(config) \in Nat
  <2>1. Held(config') = Held(config)
    BY <1>7 DEF Held
  <2> QED
    BY <1>3, <2>1, HeldIsNat
<1> QED
  BY <1>1, <1>2, <1>8, <1>9, <1>10, <1>11, ParsedBalance DEF Parsing

LEMMA ObservabilityBalance ==
  ASSUME BalanceInv, ParseObservability, argv = NoVector, argv' = NoVector
  PROVE  BalanceInv'
<1> DEFINE object == Section("observability")
           wanted == Strings({"metrics_file"} \cap DOMAIN object)
           block == <<"metrics_file", 0>>
<1>1. PICK failed, section :
        /\ Parsed("observability", section, wanted, failed, "lens")
        /\ section.metrics_file = Text(object, "metrics_file", NULL, failed)
        /\ section.log_level = OneOf(LogLevels, Get(object, "log_level", "info"), "info")
  BY DEF ParseObservability
<1>2. pc = "observability"
  BY DEF ParseObservability
<1>3. ConfigShape(config) /\ Unparsed /\ document \in Documents
  BY <1>2 DEF BalanceInv, Parsing
<1>4. ObservabilityShape(section)
  BY <1>1 DEF ObservabilityShape, OneOf, LogLevels
<1>5. \A key \in DOMAIN object : object[key] # NULL
  <2>1. Read("observability")
    BY DEF ParseObservability, Read
  <2> QED
    BY <1>3, <2>1, SectionTypes
<1>6. wanted \ failed \in SUBSET {block}
  BY DEF Strings
<1>7. In(wanted \ failed, block) = One(section.metrics_file)
  <2>1. block \in wanted <=> "metrics_file" \in DOMAIN object
    BY DEF Strings
  <2> HIDE DEF wanted
  <2> QED
    BY <1>1, <1>5, <2>1 DEF In, One, Text, Dup, Get, Has
<1>8. config' = [config EXCEPT !["observability"] = section] /\ pc' = "lens"
  BY <1>1 DEF Parsed
<1>9. {"connection", "application", "performance", "observability", "lens"} = DOMAIN config
  BY <1>3 DEF ConfigShape
<1> HIDE DEF object, wanted, block
<1>10. Cardinality(wanted \ failed) = One(section.metrics_file)
  BY <1>6, <1>7, CountOne
<1>11. /\ config'.observability = section /\ DOMAIN config' = DOMAIN config
       /\ config'.connection = config.connection
       /\ config'.application = config.application
       /\ config'.performance = config.performance /\ config'.lens = config.lens
  BY <1>8, <1>9
<1>12. ConfigShape(config')
  BY <1>3, <1>4, <1>11 DEF ConfigShape
<1>13. Unparsed'
  BY <1>2, <1>3, <1>8, <1>11 DEF Unparsed
<1>14. Held(config') = Held(config) + Cardinality(wanted \ failed)
  <2>1. One(config.observability.metrics_file) = 0
    BY <1>2, <1>3 DEF Unparsed
  <2> QED
    BY <1>3, <1>10, <1>11, <2>1, HeldIsNat, OneIsNat DEF Held
<1> QED
  BY <1>1, <1>2, <1>10, <1>12, <1>13, <1>14, OneIsNat, ParsedBalance DEF Parsing

LEMMA LensBalance ==
  ASSUME BalanceInv, ParseLens, argv = NoVector, argv' = NoVector
  PROVE  BalanceInv'
<1> DEFINE object == Section("lens")
           names == Get(object, "fallback", NULL)
           wanted == Strings({"fallback"} \cap DOMAIN object)
           block == <<"fallback", 0>>
<1>1. pc = "lens"
  BY DEF ParseLens
<1>2. CASE \E failed : Crash(failed)
  BY <1>1, <1>2, CrashBalance DEF Parsing
<1>3. CASE ~(\E failed : Crash(failed))
  <2>16. PICK failed \in Shortfalls(wanted) :
          Parsed("lens",
               [type |-> OneOf(LensTypes, Get(object, "type", "auto"), "auto"),
                fallback |-> IF names = NULL \/ failed # {} THEN NULL
                             ELSE Fallback(names)],
               wanted, failed, "ready")
    BY <1>3 DEF ParseLens
  <2> DEFINE section ==
               [type |-> OneOf(LensTypes, Get(object, "type", "auto"), "auto"),
                fallback |-> IF names = NULL \/ failed # {} THEN NULL
                             ELSE Fallback(names)]
  <2>1. /\ failed \in Shortfalls(wanted)
        /\ Parsed("lens", section, wanted, failed, "ready")
        /\ section.type = OneOf(LensTypes, Get(object, "type", "auto"), "auto")
        /\ section.fallback = IF names = NULL \/ failed # {} THEN NULL ELSE Fallback(names)
    BY <2>16
  <2> HIDE DEF section
  <2>2. ConfigShape(config) /\ Unparsed /\ document \in Documents
    BY <1>1 DEF BalanceInv, Parsing
  <2>3. \A key \in DOMAIN object : object[key] # NULL /\ object[key] \in Readably(key)
    <3>1. Read("lens")
      BY DEF ParseLens, Read
    <3> QED
      BY <2>2, <3>1, SectionTypes
  <2>4. names # NULL => names \in Seq(STRING)
    BY <2>3 DEF Get, Has, Readably, Lists
  <2>5. names # NULL => Fallback(names) \in Seq(Lenses) /\ Fallback(names) # NULL
    <3> SUFFICES ASSUME names # NULL
                 PROVE  Fallback(names) \in Seq(Lenses) /\ Fallback(names) # NULL
      OBVIOUS
    <3>1. names \in Seq(STRING)
      BY <2>4
    <3> HIDE DEF names
    <3>2. Len(names) \in Nat /\ DOMAIN names = 1 .. Len(names)
      BY <3>1
    <3>3. Fallback(names) \in [1 .. Len(names) -> Lenses]
      BY <3>2 DEF Fallback, OneOf, Lenses
    <3>4. Fallback(names) \in Seq(Lenses)
      BY <3>2, <3>3
    <3>5. Seq(Lenses) \subseteq Seq(LensTypes)
      <4>1. Lenses \subseteq LensTypes
        BY DEF Lenses, LensTypes
      <4> QED
        BY <4>1
    <3> QED
      BY <3>4, <3>5, NullAssumption
  <2>6. LensShape(section)
    <3>1. section.type \in LensTypes
      BY <2>1 DEF OneOf, LensTypes
    <3>2. section.fallback = NULL \/ section.fallback \in Seq(Lenses)
      BY <2>1, <2>5
    <3> QED
      BY <3>1, <3>2 DEF LensShape
  <2>7. wanted \ failed \in SUBSET {block}
    BY DEF Strings
  <2>8. In(wanted \ failed, block) = One(section.fallback)
    <3>1. block \in wanted <=> "fallback" \in DOMAIN object
      BY DEF Strings
    <3>2. wanted \subseteq {block}
      BY DEF Strings
    <3>3. names # NULL <=> "fallback" \in DOMAIN object
      BY <2>3 DEF Get, Has
    <3> HIDE DEF wanted, names, block
    <3>4. failed = {} \/ failed = {block}
      BY <2>1, <3>2 DEF Shortfalls
    <3> QED
      BY <2>1, <2>5, <3>1, <3>3, <3>4 DEF In, One
  <2>9. config' = [config EXCEPT !["lens"] = section] /\ pc' = "ready"
    BY <2>1 DEF Parsed
  <2>10. {"connection", "application", "performance", "observability", "lens"} = DOMAIN config
    BY <2>2 DEF ConfigShape
  <2> HIDE DEF object, names, wanted, block
  <2>11. Cardinality(wanted \ failed) = One(section.fallback)
    BY <2>7, <2>8, CountOne
  <2>12. /\ config'.lens = section /\ DOMAIN config' = DOMAIN config
         /\ config'.connection = config.connection
         /\ config'.application = config.application
         /\ config'.performance = config.performance
         /\ config'.observability = config.observability
    BY <2>9, <2>10
  <2>13. ConfigShape(config')
    BY <2>2, <2>6, <2>12 DEF ConfigShape
  <2>14. Unparsed'
    BY <2>9 DEF Unparsed
  <2>15. Held(config') = Held(config) + Cardinality(wanted \ failed)
    <3>1. One(config.lens.fallback) = 0
      BY <1>1, <2>2 DEF Unparsed
    <3> QED
      BY <2>2, <2>11, <2>12, <3>1, HeldIsNat, OneIsNat DEF Held
  <2> QED
    BY <1>1, <2>1, <2>11, <2>13, <2>14, <2>15, OneIsNat, ParsedBalance DEF Parsing
<1> QED
  BY <1>2, <1>3

(* A profile frees what it replaces.                                       *)
LEMMA ProfileBalance ==
  ASSUME BalanceInv, NEW p \in Profiles, ApplyProfile(p), argv = NoVector, argv' = NoVector
  PROVE  BalanceInv'
<1> DEFINE conn == config.connection
           K == {key \in Replaced : conn[key] # NULL}
           section == [profile |-> p, target_latency |-> Preset(p).latency,
                       frame_rate |-> Preset(p).rate,
                       prediction |-> Preset(p).prediction,
                       window |-> Preset(p).window,
                       smoothing |-> Preset(p).smoothing]
           compression(failed) == Dup("compression", Preset(p).compression, failed)
           codec(failed) == Dup("video_codec", Preset(p).codec, failed)
           limit == Preset(p).limit
           at(key) == <<key, 0>>
<1>1. PICK failed :
        /\ config' = [config EXCEPT !.performance = section,
                                    !.connection.compression = compression(failed),
                                    !.connection.video_codec = codec(failed),
                                    !.connection.bandwidth_limit = limit]
        /\ live' = live - Cardinality(K) + Cardinality(Strings(Replaced) \ failed)
  BY DEF ApplyProfile
<1> DEFINE L == Strings(Replaced) \ failed
<1>2. pc = "ready" /\ pc' = "ready" /\ UNCHANGED <<document, lost>>
  BY DEF ApplyProfile
<1>3. /\ ConfigShape(config) /\ lost \in Nat /\ document \in Documents
      /\ live = lost + Held(config) + Building
  BY <1>2 DEF BalanceInv, Parsing
<1>4. DOMAIN config = {"connection", "application", "performance", "observability", "lens"}
      /\ DOMAIN conn = Texts \cup {"remote_port", "bandwidth_limit"} /\ conn.remote_port \in Ports
  BY <1>3 DEF ConfigShape, ConnectionShape
<1>5. section.profile \in Profiles
  OBVIOUS
<1>6. In(K, "compression") = One(conn.compression) /\ In(K, "video_codec") = One(conn.video_codec)
      /\ K \in SUBSET {"compression", "video_codec"}
  BY DEF In, One, Replaced
<1>7. Preset(p).compression # NULL /\ Preset(p).codec # NULL
  BY NullAssumption DEF Preset, Profiles
<1>8. /\ In(L, at("compression")) = One(compression(failed))
      /\ In(L, at("video_codec")) = One(codec(failed))
      /\ L \in SUBSET {at("compression"), at("video_codec")}
  <2>1. \A key : at(key) \in L <=> key \in Replaced /\ at(key) \notin failed
    BY DEF Strings
  <2>2. L \in SUBSET {at("compression"), at("video_codec")}
    BY DEF Strings, Replaced
  <2> HIDE DEF L
  <2> QED
    BY <1>7, <2>1, <2>2 DEF Replaced, In, One, Dup
<1>9. at("compression") # at("video_codec")
  OBVIOUS
<1> HIDE DEF K, L, conn, section, compression, codec, limit, at
<1>10. Cardinality(K) = One(conn.compression) + One(conn.video_codec)
  <2> DEFINE a == "compression"
             b == "video_codec"
  <2>1. a # b /\ K \in SUBSET {a, b}
    BY <1>6
  <2>2. In(K, a) = One(conn.compression) /\ In(K, b) = One(conn.video_codec)
    BY <1>6
  <2> HIDE DEF a, b
  <2> QED
    BY <2>1, <2>2, CountTwo
<1>11. Cardinality(L) = One(compression(failed)) + One(codec(failed))
  BY <1>8, <1>9, CountTwo
<1>12. /\ DOMAIN config' = DOMAIN config
       /\ config'.performance = section /\ config'.application = config.application
       /\ config'.observability = config.observability /\ config'.lens = config.lens
       /\ config'.connection =
            [conn EXCEPT !.compression = compression(failed), !.video_codec = codec(failed),
                         !.bandwidth_limit = limit]
  BY <1>1, <1>4 DEF conn
<1> DEFINE new == config'.connection
<1>13. /\ DOMAIN new = DOMAIN conn /\ new.remote_port = conn.remote_port
       /\ new.remote_host = conn.remote_host /\ new.ssh_user = conn.ssh_user
       /\ new.ssh_key_path = conn.ssh_key_path
       /\ new.compression = compression(failed) /\ new.video_codec = codec(failed)
  BY <1>4, <1>12 DEF Texts
<1>14. ConnectionShape(new)
  <2> HIDE DEF new
  <2> QED
    BY <1>4, <1>13 DEF ConnectionShape
<1>15. ConfigShape(config')
  BY <1>3, <1>5, <1>12, <1>14 DEF ConfigShape, PerformanceShape
<1>16. Held(config') = Held(config) - Cardinality(K) + Cardinality(L)
  <2>1. /\ OfConnection(conn) = One(conn.remote_host) + One(conn.ssh_user)
             + One(conn.ssh_key_path) + One(conn.compression) + One(conn.video_codec)
        /\ OfConnection(new) = One(conn.remote_host) + One(conn.ssh_user)
             + One(conn.ssh_key_path) + One(compression(failed)) + One(codec(failed))
    BY <1>13 DEF OfConnection
  <2>2. OfConnection(new) = OfConnection(conn) - Cardinality(K) + Cardinality(L)
    <3> HIDE DEF new
    <3>1. /\ One(conn.remote_host) \in Nat /\ One(conn.ssh_user) \in Nat
          /\ One(conn.ssh_key_path) \in Nat /\ One(conn.compression) \in Nat
          /\ One(conn.video_codec) \in Nat /\ One(compression(failed)) \in Nat
          /\ One(codec(failed)) \in Nat
      BY OneIsNat
    <3> QED
      BY <1>10, <1>11, <2>1, <3>1
  <2>3. /\ Held(config) = OfConnection(conn) + OfApplication(config.application)
             + One(config.observability.metrics_file) + One(config.lens.fallback) + 1
        /\ Held(config') = OfConnection(new) + OfApplication(config.application)
             + One(config.observability.metrics_file) + One(config.lens.fallback) + 1
    BY <1>12 DEF Held, conn
  <2>4. /\ OfConnection(conn) \in Nat /\ OfApplication(config.application) \in Nat
        /\ One(config.observability.metrics_file) \in Nat /\ One(config.lens.fallback) \in Nat
    BY <1>3, HeldIsNat DEF conn
  <2>5. Cardinality(K) \in Nat /\ Cardinality(L) \in Nat
    BY <1>10, <1>11, OneIsNat
  <2> HIDE DEF new
  <2> QED
    BY <2>2, <2>3, <2>4, <2>5
<1>17. Building = 0 /\ Building' = 0 /\ Underway'
  BY DEF Building, Underway
<1>18. live' = lost' + Held(config') + Building'
  <2>1. Held(config) \in Nat /\ Cardinality(K) \in Nat /\ Cardinality(L) \in Nat
    BY <1>3, <1>10, <1>11, HeldIsNat, OneIsNat
  <2>2. live' = live - Cardinality(K) + Cardinality(L)
    BY <1>1 DEF L
  <2> QED
    BY <1>2, <1>3, <1>16, <1>17, <2>1, <2>2
<1>19. Unparsed'
  BY <1>2 DEF Unparsed
<1> QED
  BY <1>2, <1>3, <1>15, <1>17, <1>18, <1>19 DEF BalanceInv, Parsing

LEMMA FreeBalance ==
  ASSUME BalanceInv, FreeConfig, argv = NoVector, argv' = NoVector
  PROVE  BalanceInv'
<1>1. pc = "ready" /\ pc' = "none" /\ lost' = lost /\ live' = live - FreeCount(config)
  BY DEF FreeConfig
<1>2. ConfigShape(config) /\ lost \in Nat /\ live = lost + Held(config) + Building
  BY <1>1 DEF BalanceInv
<1>3. Held(config) \in Nat /\ Held(config) = FreeCount(config)
  BY <1>2, HeldIsNat
<1>4. Building = 0 /\ Building' = 0 /\ Underway' /\ Unparsed'
  BY <1>1 DEF Building, Underway, Unparsed
<1>5. live' = lost' + 0 + Building'
  BY <1>1, <1>2, <1>3, <1>4
<1> QED
  BY <1>1, <1>2, <1>4, <1>5 DEF BalanceInv, Parsing

(* The builders.                                                           *)
LEMMA ArgumentsType ==
  ASSUME NEW c, ConfigShape(c), NEW lens
  PROVE  Arguments(lens, c) \in Seq(STRING \cup {NULL})
<1>1. ListShape(c.application.args)
  BY DEF ConfigShape, ApplicationShape
<1>2. <<>> \in Seq(STRING \cup {NULL})
  OBVIOUS
<1> QED
  BY <1>1, <1>2 DEF Arguments, ListShape

LEMMA LaunchCrashBalance ==
  ASSUME BalanceInv, pc = "ready", NEW failures, LaunchCrash(failures)
  PROVE  BalanceInv'
<1>1. pc' = "crashed" /\ UNCHANGED <<config, live, lost, argv>>
  BY DEF LaunchCrash
<1>2. Building' = Building /\ Underway' /\ Unparsed'
  BY <1>1 DEF BalanceInv, Building, Underway, Unparsed
<1> QED
  BY <1>1, <1>2 DEF BalanceInv, Parsing

LEMMA BeginArgvBalance ==
  ASSUME BalanceInv, NEW lens \in LensTypes \ {"auto"}, BeginArgv(lens)
  PROVE  BalanceInv'
<1> DEFINE words == CommandWords(lens, config)
           made(failed) == [i \in DOMAIN words |->
                              IF i \in failed THEN Missing ELSE words[i].word]
<1>1. pc = "ready" /\ argv = NoVector /\ lens \in Candidates(config)
  BY DEF BeginArgv
<1>2. CASE \E failures : LaunchCrash(failures)
  BY <1>1, <1>2, LaunchCrashBalance
<1>3. CASE Loader /\ UNCHANGED <<live, argv>>
  BY <1>3 DEF Loader, BalanceInv, Unparsed, Underway, Building
<1>4. ASSUME NEW failed,
             argv' = [lens |-> lens, slots |-> InitialSlots, done |-> 0,
                      words |-> made(failed)],
             live' = live + Blocks(argv'.words), Loader
      PROVE  BalanceInv'
  <2>1. \E S : made(failed) \in Seq(S)
    <3>1. PICK S : words \in Seq(S)
      BY PrefixShort DEF Short
    <3> HIDE DEF words
    <3>2. made(failed) \in Seq({made(failed)[i] : i \in DOMAIN words})
      BY <3>1
    <3> QED
      BY <3>2
  <2> HIDE DEF made
  <2>2. /\ argv'.words = made(failed) /\ argv'.lens = lens /\ argv'.done = 0
        /\ argv'.slots = InitialSlots
        /\ DOMAIN argv' = {"lens", "slots", "done", "words"}
    BY <1>4
  <2>3. UNCHANGED <<pc, document, config, lost>>
    BY <1>4 DEF Loader
  <2>4. argv' # NoVector
    <3>1. NoVector.slots = 0 /\ InitialSlots # 0
      BY SlotsAssumption DEF NoVector
    <3> QED
      BY <2>2, <3>1
  <2>5. Len(Arguments(lens, config)) \in Nat
    BY <1>1, ArgumentsType DEF BalanceInv
  <2>6. Underway'
    <3>1. 0 \in 0 .. Len(Arguments(lens, config))
      BY <2>5
    <3> QED
      BY <1>1, <2>1, <2>2, <2>3, <3>1 DEF Underway
  <2>7. Building = 0 /\ Building' = Blocks(argv'.words) /\ Blocks(argv'.words) \in Nat
    BY <1>1, <2>1, <2>2, <2>4, BlocksOfWords DEF Building
  <2>9. /\ ConfigShape(config) /\ lost \in Nat /\ Held(config) \in Nat
        /\ live = lost + Held(config) + Building
    BY <1>1, HeldIsNat DEF BalanceInv
  <2>10. live' = lost' + Held(config') + Building'
    BY <1>4, <2>3, <2>7, <2>9
  <2>11. Unparsed'
    BY <1>1, <2>3 DEF Unparsed
  <2> QED
    BY <1>1, <2>3, <2>6, <2>9, <2>10, <2>11 DEF BalanceInv
<1> QED
  BY <1>2, <1>3, <1>4 DEF BeginArgv

LEMMA AppendArgBalance ==
  ASSUME BalanceInv, AppendArg
  PROVE  BalanceInv'
<1> DEFINE args == Arguments(argv.lens, config)
           arg == args[argv.done + 1]
<1>1. pc = "ready" /\ argv # NoVector /\ argv.done < Len(args)
  BY DEF AppendArg
<1>2. /\ ConfigShape(config) /\ lost \in Nat /\ Held(config) \in Nat
      /\ live = lost + Held(config) + Building
  BY <1>1, HeldIsNat DEF BalanceInv
<1>3. /\ {"lens", "done", "words"} \subseteq DOMAIN argv
      /\ argv.lens \in Candidates(config) /\ argv.done \in 0 .. Len(args)
  BY <1>1 DEF BalanceInv, Underway
<1>4. args \in Seq(STRING \cup {NULL}) /\ Len(args) \in Nat
  BY <1>2, ArgumentsType
<1>5. CASE LaunchCrash(0)
  BY <1>1, <1>5, LaunchCrashBalance
<1>6. ASSUME NEW failed \in Shortfalls({"strdup"}), NEW slots, NEW word, arg # NULL,
             word = IF failed = {} THEN <<arg>> ELSE Missing,
             argv' = [argv EXCEPT !.slots = slots, !.words = Append(@, word), !.done = @ + 1],
             Allocated({"strdup"}, failed), Loader
      PROVE  BalanceInv'
  <2>1. PICK S : argv.words \in Seq(S)
    BY <1>1 DEF BalanceInv, Underway
  <2>2. /\ argv'.words = Append(argv.words, word) /\ argv'.lens = argv.lens
        /\ argv'.done = argv.done + 1 /\ DOMAIN argv' = DOMAIN argv
    BY <1>3, <1>6
  <2>3. UNCHANGED <<pc, document, config, lost>>
    BY <1>6 DEF Loader
  <2>4. argv' # NoVector
    <3>1. NoVector.done = 0
      BY DEF NoVector
    <3>2. argv'.done # 0
      BY <1>3, <1>4, <2>2
    <3> QED
      BY <3>1, <3>2
  <2> DEFINE block == IF word = Missing THEN 0 ELSE 1
  <2>5. Cardinality({"strdup"} \ failed) = block
    <3>1. <<arg>> # Missing
      BY DEF Missing
    <3>2. failed = {} \/ failed = {"strdup"}
      BY <1>6 DEF Shortfalls
    <3>3. CASE failed = {}
      <4>1. {"strdup"} \ failed = {"strdup"} /\ block = 1
        BY <1>6, <3>1, <3>3
      <4> QED
        BY <4>1, FS_Singleton
    <3>4. CASE failed = {"strdup"}
      <4>1. {"strdup"} \ failed = {} /\ block = 0
        BY <1>6, <3>4
      <4> QED
        BY <4>1, FS_EmptySet
    <3> QED
      BY <3>2, <3>3, <3>4
  <2>6. live' = live + block
    BY <1>6, <2>5 DEF Allocated
  <2>7. Blocks(argv.words) \in Nat /\ Blocks(argv'.words) = Blocks(argv.words) + block
    BY <2>1, <2>2, BlocksOfWords
  <2>8. Building = Blocks(argv.words) /\ Building' = Blocks(argv'.words)
    BY <1>1, <2>4 DEF Building
  <2>9. live' = lost' + Held(config') + Building'
    BY <1>2, <2>3, <2>6, <2>7, <2>8
  <2>10. Underway'
    <3>1. argv'.done \in 0 .. Len(Arguments(argv'.lens, config'))
      BY <1>1, <1>3, <1>4, <2>2, <2>3
    <3>2. Append(argv.words, word) \in Seq(S \cup {word})
      <4>1. argv.words \in Seq(S \cup {word}) /\ word \in S \cup {word}
        BY <2>1
      <4> QED
        BY <4>1
    <3> QED
      BY <1>1, <1>3, <2>2, <2>3, <3>1, <3>2 DEF Underway
  <2>11. Unparsed'
    BY <1>1, <2>3 DEF Unparsed
  <2> QED
    BY <1>1, <1>2, <2>3, <2>9, <2>10, <2>11 DEF BalanceInv
<1> QED
  BY <1>5, <1>6 DEF AppendArg

(* A vector that is given up, and one that was executed.                   *)
LEMMA FreeVectorBalance ==
  ASSUME BalanceInv, pc = "ready", argv # NoVector, argv' = NoVector, Loader,
         live' = live - Blocks(argv.words)
  PROVE  BalanceInv'
<1>1. UNCHANGED <<pc, document, config, lost>>
  BY DEF Loader
<1>2. /\ ConfigShape(config) /\ lost \in Nat /\ Held(config) \in Nat
      /\ live = lost + Held(config) + Building
  BY HeldIsNat DEF BalanceInv
<1>3. Building = Blocks(argv.words) /\ Building \in Nat
  BY BuildingIsNat DEF Building
<1>4. Building' = 0 /\ Underway'
  BY DEF Building, Underway
<1>5. live' = lost' + Held(config') + Building'
  BY <1>1, <1>2, <1>3, <1>4
<1>6. Unparsed'
  BY <1>1 DEF Unparsed
<1> QED
  BY <1>1, <1>2, <1>4, <1>5, <1>6 DEF BalanceInv

LEMMA BalanceInductive == BalanceInv /\ [Next]_vars => BalanceInv'
<1> SUFFICES ASSUME BalanceInv, [Next]_vars
             PROVE  BalanceInv'
  OBVIOUS
<1>1. CASE argv = NoVector /\ ConfigNext /\ argv' = NoVector
  <2>1. CASE \E d \in Documents : BeginLoad(d)
    BY <1>1, <2>1, BeginLoadBalance
  <2>2. CASE ParseConnection \/ ParseApplication \/ Reject \/ ReadNull
    <3>1. CASE ReadNull
      BY <1>1, <3>1, CrashBalance DEF ReadNull, Parsing
    <3> QED
      BY <1>1, <2>2, <3>1, ConnectionBalance, ApplicationBalance, RejectBalance
  <2>3. CASE ParsePerformance \/ ParseObservability \/ ParseLens
    BY <1>1, <2>3, PerformanceBalance, ObservabilityBalance, LensBalance
  <2>4. CASE \E p \in Profiles : ApplyProfile(p)
    BY <1>1, <2>4, ProfileBalance
  <2>5. CASE FreeConfig
    BY <1>1, <2>5, FreeBalance
  <2> QED
    BY <1>1, <2>1, <2>2, <2>3, <2>4, <2>5 DEF ConfigNext
<1>2. CASE \E lens \in LensTypes \ {"auto"} : BeginArgv(lens)
  BY <1>2, BeginArgvBalance
<1>3. CASE AppendArg
  BY <1>3, AppendArgBalance
<1>4. CASE GrowthFails
  BY <1>4, FreeVectorBalance DEF GrowthFails
<1>5. CASE Exec
  BY <1>5, FreeVectorBalance DEF Exec
<1>6. CASE UNCHANGED vars
  BY <1>6 DEF vars, configVars, BalanceInv, Unparsed, Underway, Building
<1> QED
  BY <1>1, <1>2, <1>3, <1>4, <1>5, <1>6 DEF Next

THEOREM Balance == Spec => []BalanceInv
<1>1. LaunchInit => BalanceInv
  <2> SUFFICES ASSUME LaunchInit PROVE BalanceInv
    OBVIOUS
  <2>1. pc = "none" /\ live = 0 /\ lost = 0 /\ argv = NoVector
    BY DEF LaunchInit, Init
  <2> QED
    BY <2>1 DEF BalanceInv, Unparsed, Underway, Building, Parsing
<1> QED
  BY <1>1, BalanceInductive, PTL DEF Spec

(* Whatever the documents say, in any sequence of loads, profiles, attempts *)
(* and releases, and whichever allocations fail, the heap blocks that are  *)
(* left when the configuration has been freed are those of documents that  *)
(* were rejected (schema.c:122-167, 260-309, profiles.c:6-52,              *)
(* lens_waypipe.c:57-130).                                                 *)
THEOREM NoLeak == Spec => []NoLeakUnlessRejected
<1>1. BalanceInv => NoLeakUnlessRejected
  <2> SUFFICES ASSUME BalanceInv, pc = "none" PROVE live = lost
    BY DEF NoLeakUnlessRejected
  <2>1. argv = NoVector
    BY DEF BalanceInv, Underway
  <2>2. Building = 0
    BY <2>1 DEF Building
  <2>3. lost \in Nat /\ live = lost + 0 + Building
    BY DEF BalanceInv
  <2> QED
    BY <2>2, <2>3
<1> QED
  BY <1>1, Balance, PTL

LEMMA BalanceTypes == BalanceInv => TypeOK
<1> SUFFICES ASSUME BalanceInv PROVE TypeOK
  OBVIOUS
<1>1. pc \in {"none", "connection", "application", "performance",
              "observability", "lens", "ready", "crashed"}
  BY DEF BalanceInv, Parsing
<1>2. live \in Nat /\ lost \in 0 .. live
  <2> DEFINE held == IF pc = "none" THEN 0 ELSE Held(config)
  <2>1. held \in Nat /\ Building \in Nat /\ lost \in Nat /\ live = lost + held + Building
    BY HeldIsNat, BuildingIsNat DEF BalanceInv
  <2> HIDE DEF held
  <2> QED
    BY <2>1
<1>3. ASSUME pc = "ready"
      PROVE  /\ config.connection.remote_port \in Ports
             /\ config.performance.profile \in Profiles
             /\ config.observability.log_level \in LogLevels
             /\ config.lens.type \in LensTypes
             /\ Candidates(config) \subseteq {"waypipe", "sunshine", "moonlight"}
  <2>1. ConfigShape(config)
    BY <1>3 DEF BalanceInv
  <2>2. config.connection.remote_port \in Ports
    BY <2>1 DEF ConfigShape, ConnectionShape
  <2>3. /\ PerformanceShape(config.performance) /\ LensShape(config.lens)
        /\ ObservabilityShape(config.observability)
    BY <2>1 DEF ConfigShape
  <2>4. /\ config.performance.profile \in Profiles
        /\ config.observability.log_level \in LogLevels
        /\ config.lens.type \in LensTypes
        /\ config.lens.fallback = NULL \/ config.lens.fallback \in Seq(Lenses)
    BY <2>3 DEF PerformanceShape, ObservabilityShape, LensShape
  <2>5. \A application : SelectLens([type |-> config.lens.type,
                                     application |-> application]) \in Lenses
    BY <2>4 DEF SelectLens, LensTypes, Lenses
  <2>6. config.lens.fallback # NULL => Elements(config.lens.fallback) \subseteq Lenses
    <3> DEFINE list == config.lens.fallback
    <3>1. list # NULL => list \in Seq(Lenses)
      BY <2>4
    <3> HIDE DEF list
    <3>2. list # NULL => Elements(list) \subseteq Lenses
      BY <3>1 DEF Elements
    <3> QED
      BY <3>2 DEF list
  <2>7. "waypipe" \in Lenses
    BY DEF Lenses
  <2>8. Candidates(config) \subseteq Lenses
    BY <2>5, <2>6, <2>7 DEF Candidates
  <2> QED
    BY <2>2, <2>4, <2>8 DEF Lenses
<1>4. argv # NoVector =>
        /\ pc \in {"ready", "crashed"}
        /\ argv.lens \in Candidates(config)
        /\ argv.done \in 0 .. Len(Arguments(argv.lens, config))
  BY DEF BalanceInv, Underway
<1> QED
  BY <1>1, <1>2, <1>3, <1>4 DEF TypeOK

(* No document and no profile gives a configuration that was loaded a      *)
(* value outside its type, and a builder is always one of the lenses that  *)
(* the session may try (schema.c:126-136, 197-209, 223-235, 246-252).      *)
THEOREM TypeCorrect == Spec => []TypeOK
  BY BalanceTypes, Balance, PTL

(***************************************************************************)
(* The words of a vector.                                                  *)
(***************************************************************************)
IsList(s) == \E S : s \in Seq(S)

LEMMA ListFacts ==
  ASSUME NEW s, IsList(s)
  PROVE  Len(s) \in Nat /\ DOMAIN s = 1 .. Len(s)
  BY DEF IsList

LEMMA ListConcat ==
  ASSUME NEW s, IsList(s), NEW t, IsList(t)
  PROVE  /\ IsList(s \o t) /\ Len(s \o t) = Len(s) + Len(t)
         /\ \A i \in 1 .. Len(s) : (s \o t)[i] = s[i]
         /\ \A i \in 1 .. Len(t) : (s \o t)[Len(s) + i] = t[i]
<1>1. PICK S : s \in Seq(S)
  BY DEF IsList
<1>2. PICK T : t \in Seq(T)
  BY DEF IsList
<1>3. s \in Seq(S \cup T) /\ t \in Seq(S \cup T)
  BY <1>1, <1>2
<1>4. /\ s \o t \in Seq(S \cup T) /\ Len(s \o t) = Len(s) + Len(t)
      /\ \A i \in 1 .. Len(s) + Len(t) :
           (s \o t)[i] = IF i <= Len(s) THEN s[i] ELSE t[i - Len(s)]
  BY <1>3, ConcatProperties
<1>5. Len(s) \in Nat /\ Len(t) \in Nat
  BY <1>3
<1>6. ASSUME NEW i \in 1 .. Len(s) PROVE (s \o t)[i] = s[i]
  BY <1>4, <1>5
<1>7. ASSUME NEW i \in 1 .. Len(t) PROVE (s \o t)[Len(s) + i] = t[i]
  <2>1. Len(s) + i \in 1 .. Len(s) + Len(t) /\ ~(Len(s) + i <= Len(s)) /\ (Len(s) + i) - Len(s) = i
    BY <1>5
  <2> HIDE <1>4
  <2> QED
    BY <1>4, <2>1
<1> QED
  BY <1>4, <1>6, <1>7 DEF IsList

LEMMA ListTuples ==
  /\ IsList(<<>>)
  /\ \A a : IsList(<<a>>)
  /\ \A a, b : IsList(<<a, b>>)
  /\ \A a, b, c, d : IsList(<<a, b, c, d>>)
  BY ShortTuples DEF IsList, Short

(* Words of command words: all of them, next to each other, the last one.  *)
Spelled(s) == {s[i].word : i \in DOMAIN s}
Adjacent(s, a, b) == \E i \in 1 .. Len(s) - 1 : s[i].word = a /\ s[i + 1].word = b
Ends(s, a) == Len(s) # 0 /\ s[Len(s)].word = a

LEMMA SpelledConcat ==
  ASSUME NEW s, IsList(s), NEW t, IsList(t)
  PROVE  Spelled(s \o t) = Spelled(s) \cup Spelled(t)
<1> DEFINE u == s \o t
           m == Len(s)
           n == Len(t)
<1>1. m \in Nat /\ n \in Nat /\ DOMAIN s = 1 .. m /\ DOMAIN t = 1 .. n /\ DOMAIN u = 1 .. m + n
  BY ListFacts, ListConcat
<1>2. \A i \in 1 .. m : u[i] = s[i]
  BY ListConcat
<1>3. \A i \in 1 .. n : u[m + i] = t[i]
  BY ListConcat
<1> HIDE DEF u, m, n
<1>4. ASSUME NEW i \in 1 .. m + n PROVE u[i].word \in Spelled(s) \cup Spelled(t)
  <2>1. CASE i <= m
    <3>1. i \in 1 .. m
      BY <1>1, <2>1
    <3> QED
      BY <1>1, <1>2, <3>1 DEF Spelled
  <2>2. CASE ~(i <= m)
    <3>1. PICK j \in 1 .. n : i = m + j
      <4>1. i - m \in 1 .. n /\ i = m + (i - m)
        BY <1>1, <2>2
      <4> QED
        BY <4>1
    <3> QED
      BY <1>1, <1>3, <3>1 DEF Spelled
  <2> QED
    BY <2>1, <2>2
<1>5. ASSUME NEW i \in 1 .. m PROVE s[i].word \in Spelled(u)
  <2>1. i \in 1 .. m + n
    BY <1>1
  <2> QED
    BY <1>1, <1>2, <2>1 DEF Spelled
<1>6. ASSUME NEW i \in 1 .. n PROVE t[i].word \in Spelled(u)
  <2>1. m + i \in 1 .. m + n
    BY <1>1
  <2> QED
    BY <1>1, <1>3, <2>1 DEF Spelled
<1>7. Spelled(u) \subseteq Spelled(s) \cup Spelled(t)
  BY <1>1, <1>4 DEF Spelled
<1>8. Spelled(s) \subseteq Spelled(u) /\ Spelled(t) \subseteq Spelled(u)
  BY <1>1, <1>5, <1>6 DEF Spelled
<1> QED
  BY <1>7, <1>8 DEF u

LEMMA AdjacentConcat ==
  ASSUME NEW s, IsList(s), NEW t, IsList(t), NEW a, NEW b
  PROVE  /\ Adjacent(s, a, b) => Adjacent(s \o t, a, b)
         /\ Adjacent(t, a, b) => Adjacent(s \o t, a, b)
<1> DEFINE u == s \o t
           m == Len(s)
           n == Len(t)
<1>1. m \in Nat /\ n \in Nat /\ Len(u) = m + n
  BY ListFacts, ListConcat
<1>2. \A i \in 1 .. m : u[i] = s[i]
  BY ListConcat
<1>3. \A i \in 1 .. n : u[m + i] = t[i]
  BY ListConcat
<1> HIDE DEF u
<1>4. ASSUME Adjacent(s, a, b) PROVE Adjacent(u, a, b)
  <2>1. PICK i \in 1 .. m - 1 : s[i].word = a /\ s[i + 1].word = b
    BY <1>4 DEF Adjacent
  <2>2. i \in 1 .. m /\ i + 1 \in 1 .. m /\ i \in 1 .. (m + n) - 1
    BY <1>1
  <2>3. u[i].word = a /\ u[i + 1].word = b
    BY <1>2, <2>1, <2>2
  <2> QED
    BY <1>1, <2>2, <2>3 DEF Adjacent
<1>5. ASSUME Adjacent(t, a, b) PROVE Adjacent(u, a, b)
  <2>1. PICK i \in 1 .. n - 1 : t[i].word = a /\ t[i + 1].word = b
    BY <1>5 DEF Adjacent
  <2>2. i \in 1 .. n /\ i + 1 \in 1 .. n /\ m + i \in 1 .. (m + n) - 1
        /\ (m + i) + 1 = m + (i + 1)
    BY <1>1
  <2>3. u[m + i].word = a /\ u[m + (i + 1)].word = b
    BY <1>3, <2>1, <2>2
  <2> QED
    BY <1>1, <2>2, <2>3 DEF Adjacent
<1> QED
  BY <1>4, <1>5 DEF u

LEMMA EndsConcat ==
  ASSUME NEW s, IsList(s), NEW t, IsList(t), NEW a, Ends(t, a)
  PROVE  Ends(s \o t, a)
<1>1. Len(s) \in Nat /\ Len(t) \in Nat /\ Len(t) # 0 /\ t[Len(t)].word = a
  BY ListFacts DEF Ends
<1>2. Len(s \o t) = Len(s) + Len(t)
  BY ListConcat
<1>3. (s \o t)[Len(s) + Len(t)] = t[Len(t)]
  BY <1>1, ListConcat
<1>4. Len(s) + Len(t) # 0
  BY <1>1
<1> QED
  BY <1>1, <1>2, <1>3, <1>4 DEF Ends

LEMMA SpelledTuples ==
  /\ Spelled(<<>>) = {}
  /\ \A a : Spelled(<<a>>) = {a.word}
  /\ \A a, b : Spelled(<<a, b>>) = {a.word, b.word}
  /\ \A a, b, c, d : Spelled(<<a, b, c, d>>) = {a.word, b.word, c.word, d.word}
  BY DEF Spelled

LEMMA AdjacentTuples ==
  /\ \A a, b : Adjacent(<<a, b>>, a.word, b.word)
  /\ \A a, b, c, d : Adjacent(<<a, b, c, d>>, a.word, b.word)
  BY DEF Adjacent

LEMMA EndsTuples ==
  /\ \A a : Ends(<<a>>, a.word)
  /\ \A a, b, c, d : Ends(<<a, b, c, d>>, d.word)
  BY DEF Ends

LEMMA OptionList ==
  ASSUME NEW text, NEW absent, NEW words, IsList(words)
  PROVE  IsList(Option(text, absent, words))
  BY ListTuples DEF Option

(* What the builders put before the arguments: ...                         *)
WaypipeSpelling(c) ==
  LET conn == c.connection IN
  {<<"waypipe">>, <<"client">>}
    \cup (IF conn.compression \in {NULL, "none"} THEN {}
          ELSE {<<"--compress=", conn.compression>>})
    \cup (IF conn.video_codec = NULL THEN {} ELSE {<<"--video-codec=", conn.video_codec>>})
    \cup {<<"--ssh">>, <<conn.ssh_user, "@", conn.remote_host>>, <<"--">>,
          <<c.application.executable>>}

LEMMA WaypipeSpelled ==
  ASSUME NEW c
  PROVE  /\ IsList(WaypipeWords(c))
         /\ Spelled(WaypipeWords(c)) = WaypipeSpelling(c)
         /\ Adjacent(WaypipeWords(c), <<"--ssh">>,
                     <<c.connection.ssh_user, "@", c.connection.remote_host>>)
         /\ Ends(WaypipeWords(c), <<c.application.executable>>)
<1> DEFINE conn == c.connection
           user == <<conn.ssh_user, "@", conn.remote_host>>
           w1 == <<Literal("waypipe"), Literal("client")>>
           w2 == Option(conn.compression, {NULL, "none"},
                        <<Format(<<"--compress=", conn.compression>>, {})>>)
           w3 == Option(conn.video_codec, {NULL},
                        <<Format(<<"--video-codec=", conn.video_codec>>, {})>>)
           target == Format(user, {conn.ssh_user, conn.remote_host})
           w4 == <<Literal("--ssh"), target, Literal("--"), Copy(c.application.executable)>>
<1>1. IsList(w1) /\ IsList(w2) /\ IsList(w3) /\ IsList(w4)
  BY ListTuples, OptionList
<1>2. /\ \A text : Literal(text).word = <<text>>
      /\ \A text : Copy(text).word = <<text>>
      /\ \A texts, sources : Format(texts, sources).word = texts
  BY DEF Literal, Copy, Format
<1>3. Spelled(w1) = {<<"waypipe">>, <<"client">>}
  <2>1. Spelled(w1) = {Literal("waypipe").word, Literal("client").word}
    BY SpelledTuples
  <2> HIDE DEF w1
  <2> QED
    BY <1>2, <2>1
<1>4. Spelled(w2) = IF conn.compression \in {NULL, "none"} THEN {}
                    ELSE {<<"--compress=", conn.compression>>}
  <2> DEFINE f == Format(<<"--compress=", conn.compression>>, {})
  <2>1. f.word = <<"--compress=", conn.compression>>
    BY <1>2
  <2> HIDE DEF f
  <2>2. Spelled(<<f>>) = {f.word} /\ Spelled(<<>>) = {}
    BY SpelledTuples
  <2>3. w2 = IF conn.compression \in {NULL, "none"} THEN <<>> ELSE <<f>>
    BY DEF Option, f
  <2> HIDE DEF w2
  <2> QED
    BY <2>1, <2>2, <2>3
<1>5. Spelled(w3) = IF conn.video_codec = NULL THEN {}
                    ELSE {<<"--video-codec=", conn.video_codec>>}
  <2> DEFINE f == Format(<<"--video-codec=", conn.video_codec>>, {})
  <2>1. f.word = <<"--video-codec=", conn.video_codec>>
    BY <1>2
  <2> HIDE DEF f
  <2>2. Spelled(<<f>>) = {f.word} /\ Spelled(<<>>) = {}
    BY SpelledTuples
  <2>3. w3 = IF conn.video_codec = NULL THEN <<>> ELSE <<f>>
    BY DEF Option, f
  <2> HIDE DEF w3
  <2> QED
    BY <2>1, <2>2, <2>3
<1>6. Spelled(w4) = {<<"--ssh">>, user, <<"--">>, <<c.application.executable>>}
  <2>1. Spelled(w4) = {Literal("--ssh").word, target.word, Literal("--").word,
                       Copy(c.application.executable).word}
    <3> HIDE DEF target
    <3> QED
      BY SpelledTuples
  <2>2. target.word = user
    BY <1>2
  <2> HIDE DEF w4, target, user
  <2> QED
    BY <1>2, <2>1, <2>2
<1>7. Adjacent(w4, <<"--ssh">>, user) /\ Ends(w4, <<c.application.executable>>)
  <2>1. /\ Adjacent(w4, Literal("--ssh").word, target.word)
        /\ Ends(w4, Copy(c.application.executable).word)
    <3> HIDE DEF target
    <3> QED
      BY AdjacentTuples, EndsTuples
  <2> HIDE DEF w4
  <2> QED
    BY <1>2, <2>1
<1>8. WaypipeWords(c) = w1 \o w2 \o w3 \o w4
  BY DEF WaypipeWords
<1> HIDE DEF w1, w2, w3, w4
<1>9. IsList(w1 \o w2) /\ IsList(w1 \o w2 \o w3) /\ IsList(w1 \o w2 \o w3 \o w4)
  BY <1>1, ListConcat
<1>10. Spelled(w1 \o w2 \o w3 \o w4) = Spelled(w1) \cup Spelled(w2) \cup Spelled(w3) \cup Spelled(w4)
  <2>1. Spelled(w1 \o w2) = Spelled(w1) \cup Spelled(w2)
    BY <1>1, SpelledConcat
  <2>2. Spelled(w1 \o w2 \o w3) = Spelled(w1 \o w2) \cup Spelled(w3)
    BY <1>1, <1>9, SpelledConcat
  <2>3. Spelled(w1 \o w2 \o w3 \o w4) = Spelled(w1 \o w2 \o w3) \cup Spelled(w4)
    BY <1>1, <1>9, SpelledConcat
  <2> QED
    BY <2>1, <2>2, <2>3
<1>11. Spelled(WaypipeWords(c)) = WaypipeSpelling(c)
  BY <1>3, <1>4, <1>5, <1>6, <1>8, <1>10 DEF WaypipeSpelling
<1>12. /\ Adjacent(WaypipeWords(c), <<"--ssh">>, user)
       /\ Ends(WaypipeWords(c), <<c.application.executable>>)
  BY <1>1, <1>7, <1>8, <1>9, AdjacentConcat, EndsConcat
<1> QED
  BY <1>8, <1>9, <1>11, <1>12

LEMMA StreamSpelled ==
  ASSUME NEW c, NEW program, NEW host, NEW port, NEW app, IsList(app),
         Missing \notin Spelled(app), c.application.executable # NULL
  PROVE  LET words == StreamWords(c, program, host, port, app) IN
         /\ IsList(words) /\ Missing \notin Spelled(words)
         /\ c.connection.video_codec # NULL =>
              Adjacent(words, <<"--codec">>, <<c.connection.video_codec>>)
         /\ c.performance.frame_rate # 0 =>
              Adjacent(words, <<"--fps">>, <<"fps", c.performance.frame_rate>>)
         /\ Ends(words, <<c.application.executable>>)
<1> DEFINE conn == c.connection
           rate == c.performance.frame_rate
           exe == c.application.executable
           w1 == <<Literal(program)>>
           w2 == Option(conn.remote_host, {NULL}, <<Literal(host), Copy(conn.remote_host)>>)
           w3 == Option(conn.remote_port, {0, port},
                        <<Literal("--port"), Decimal("port", conn.remote_port)>>)
           w4 == Option(rate, {0}, <<Literal("--fps"), Decimal("fps", rate)>>)
           w5 == Option(conn.video_codec, {NULL},
                        <<Literal("--codec"), Copy(conn.video_codec)>>)
           w6 == Option(exe, {NULL}, app \o <<Copy(exe)>>)
<1>1. /\ \A text : Literal(text).word = <<text>>
      /\ \A text : Copy(text).word = <<text>>
      /\ \A of, n : Decimal(of, n).word = <<of, n>>
  BY DEF Literal, Copy, Decimal
<1>2. IsList(w1) /\ IsList(w2) /\ IsList(w3) /\ IsList(w4) /\ IsList(w5)
  BY ListTuples, OptionList
<1>3. IsList(app \o <<Copy(exe)>>) /\ w6 = app \o <<Copy(exe)>>
  <2>1. IsList(<<Copy(exe)>>)
    BY ListTuples
  <2>2. w6 = app \o <<Copy(exe)>>
    BY DEF Option
  <2> QED
    BY <2>1, <2>2, ListConcat
<1>4. rate # 0 => Adjacent(w4, <<"--fps">>, <<"fps", rate>>)
  <2>1. Adjacent(<<Literal("--fps"), Decimal("fps", rate)>>, Literal("--fps").word,
                 Decimal("fps", rate).word)
    BY AdjacentTuples
  <2>2. rate # 0 => w4 = <<Literal("--fps"), Decimal("fps", rate)>>
    BY DEF Option
  <2> QED
    BY <1>1, <2>1, <2>2
<1>5. conn.video_codec # NULL => Adjacent(w5, <<"--codec">>, <<conn.video_codec>>)
  <2>1. Adjacent(<<Literal("--codec"), Copy(conn.video_codec)>>, Literal("--codec").word,
                 Copy(conn.video_codec).word)
    BY AdjacentTuples
  <2>2. conn.video_codec # NULL => w5 = <<Literal("--codec"), Copy(conn.video_codec)>>
    BY DEF Option
  <2> QED
    BY <1>1, <2>1, <2>2
<1>6. Ends(w6, <<exe>>)
  <2>1. IsList(<<Copy(exe)>>) /\ Ends(<<Copy(exe)>>, <<exe>>)
    BY <1>1, ListTuples, EndsTuples
  <2> QED
    BY <1>3, <2>1, EndsConcat
<1>14. /\ Missing \notin Spelled(w1) /\ Missing \notin Spelled(w2)
       /\ Missing \notin Spelled(w3) /\ Missing \notin Spelled(w4)
       /\ Missing \notin Spelled(w5) /\ Missing \notin Spelled(w6)
  <2>1. \A a : a.word # Missing => Missing \notin Spelled(<<a>>)
    BY SpelledTuples
  <2>2. \A a, b : a.word # Missing /\ b.word # Missing => Missing \notin Spelled(<<a, b>>)
    BY SpelledTuples
  <2>3. \A text : Literal(text).word # Missing /\ Copy(text).word # Missing
    BY <1>1 DEF Missing
  <2>4. \A of, n : Decimal(of, n).word # Missing
    BY <1>1 DEF Missing
  <2>5. Missing \notin Spelled(<<>>)
    BY SpelledTuples
  <2>6. Missing \notin Spelled(w1)
    BY <2>1, <2>3
  <2>7. Missing \notin Spelled(w2) /\ Missing \notin Spelled(w3)
    BY <2>2, <2>3, <2>4, <2>5 DEF Option
  <2>8. Missing \notin Spelled(w4) /\ Missing \notin Spelled(w5)
    BY <2>2, <2>3, <2>4, <2>5 DEF Option
  <2>9. Missing \notin Spelled(w6)
    <3>1. IsList(<<Copy(exe)>>) /\ Missing \notin Spelled(<<Copy(exe)>>)
      BY <2>1, <2>3, ListTuples
    <3>2. Spelled(app \o <<Copy(exe)>>) = Spelled(app) \cup Spelled(<<Copy(exe)>>)
      BY <3>1, SpelledConcat
    <3> HIDE DEF w6
    <3> QED
      BY <1>3, <3>1, <3>2
  <2> QED
    BY <2>6, <2>7, <2>8, <2>9
<1>7. StreamWords(c, program, host, port, app) = w1 \o w2 \o w3 \o w4 \o w5 \o w6
  BY DEF StreamWords
<1>8. IsList(w6)
  BY <1>3
<1> HIDE DEF w1, w2, w3, w4, w5, w6
<1>9. /\ IsList(w1 \o w2) /\ IsList(w1 \o w2 \o w3) /\ IsList(w1 \o w2 \o w3 \o w4)
      /\ IsList(w1 \o w2 \o w3 \o w4 \o w5) /\ IsList(w1 \o w2 \o w3 \o w4 \o w5 \o w6)
  BY <1>2, <1>8, ListConcat
<1> DEFINE words == w1 \o w2 \o w3 \o w4 \o w5 \o w6
<1>10. rate # 0 => Adjacent(words, <<"--fps">>, <<"fps", rate>>)
  <2> DEFINE a == <<"--fps">>
             b == <<"fps", rate>>
  <2>1. rate # 0 => Adjacent(w4, a, b)
    BY <1>4
  <2> HIDE DEF a, b
  <2>2. Adjacent(w4, a, b) => Adjacent(w1 \o w2 \o w3 \o w4, a, b)
    BY <1>2, <1>9, AdjacentConcat
  <2>3. Adjacent(w1 \o w2 \o w3 \o w4, a, b) => Adjacent(w1 \o w2 \o w3 \o w4 \o w5, a, b)
    BY <1>2, <1>9, AdjacentConcat
  <2>4. Adjacent(w1 \o w2 \o w3 \o w4 \o w5, a, b) => Adjacent(words, a, b)
    BY <1>8, <1>9, AdjacentConcat
  <2>5. rate # 0 => Adjacent(words, a, b)
    BY <2>1, <2>2, <2>3, <2>4
  <2> QED
    BY <2>5 DEF a, b
<1>11. conn.video_codec # NULL => Adjacent(words, <<"--codec">>, <<conn.video_codec>>)
  <2> DEFINE a == <<"--codec">>
             b == <<conn.video_codec>>
  <2>1. conn.video_codec # NULL => Adjacent(w5, a, b)
    BY <1>5
  <2> HIDE DEF a, b
  <2>2. Adjacent(w5, a, b) => Adjacent(w1 \o w2 \o w3 \o w4 \o w5, a, b)
    BY <1>2, <1>9, AdjacentConcat
  <2>3. Adjacent(w1 \o w2 \o w3 \o w4 \o w5, a, b) => Adjacent(words, a, b)
    BY <1>8, <1>9, AdjacentConcat
  <2>4. conn.video_codec # NULL => Adjacent(words, a, b)
    BY <2>1, <2>2, <2>3
  <2> QED
    BY <2>4 DEF a, b
<1>12. Ends(words, <<exe>>)
  BY <1>6, <1>8, <1>9, EndsConcat
<1>15. Missing \notin Spelled(words)
  <2>1. Spelled(words) = Spelled(w1 \o w2 \o w3 \o w4 \o w5) \cup Spelled(w6)
    BY <1>8, <1>9, SpelledConcat
  <2>2. Spelled(w1 \o w2 \o w3 \o w4 \o w5) = Spelled(w1 \o w2 \o w3 \o w4) \cup Spelled(w5)
    BY <1>2, <1>9, SpelledConcat
  <2>3. Spelled(w1 \o w2 \o w3 \o w4) = Spelled(w1 \o w2 \o w3) \cup Spelled(w4)
    BY <1>2, <1>9, SpelledConcat
  <2>4. Spelled(w1 \o w2 \o w3) = Spelled(w1 \o w2) \cup Spelled(w3)
    BY <1>2, <1>9, SpelledConcat
  <2>5. Spelled(w1 \o w2) = Spelled(w1) \cup Spelled(w2)
    BY <1>2, SpelledConcat
  <2> HIDE DEF words
  <2> QED
    BY <1>14, <2>1, <2>2, <2>3, <2>4, <2>5
<1> HIDE DEF words
<1>13. StreamWords(c, program, host, port, app) = words
  BY <1>7 DEF words
<1> QED
  BY <1>9, <1>10, <1>11, <1>12, <1>13, <1>15 DEF words

(* ... and the whole vector, when every copy succeeded.                    *)
Words(s) == [i \in DOMAIN s |-> s[i].word]
Given(a, n) == [i \in 1 .. n |-> <<a[i]>>]
Image(lens, c, n) == Words(CommandWords(lens, c)) \o Given(Arguments(lens, c), n)

LEMMA WordsFacts ==
  ASSUME NEW s, IsList(s)
  PROVE  /\ IsList(Words(s)) /\ Len(Words(s)) = Len(s)
         /\ \A i \in 1 .. Len(s) : Words(s)[i] = s[i].word
<1>1. Len(s) \in Nat /\ DOMAIN s = 1 .. Len(s)
  BY ListFacts
<1>2. Words(s) = [i \in 1 .. Len(s) |-> s[i].word]
  BY <1>1 DEF Words
<1>3. Words(s) \in Seq({s[i].word : i \in 1 .. Len(s)})
  BY <1>1, <1>2
<1>4. Len(Words(s)) = Len(s)
  BY <1>1, <1>2
<1> QED
  BY <1>2, <1>3, <1>4 DEF IsList

LEMMA GivenFacts ==
  ASSUME NEW a, NEW n \in Nat
  PROVE  /\ IsList(Given(a, n)) /\ Len(Given(a, n)) = n
         /\ \A i \in 1 .. n : Given(a, n)[i] = <<a[i]>>
<1>1. Given(a, n) \in Seq({<<a[i]>> : i \in 1 .. n})
  BY DEF Given
<1>2. Len(Given(a, n)) = n
  BY DEF Given
<1> QED
  BY <1>1, <1>2 DEF IsList, Given

LEMMA ImageBegun ==
  ASSUME NEW s, IsList(s), NEW a
  PROVE  Words(s) \o Given(a, 0) = Words(s)
<1>1. PICK S : Words(s) \in Seq(S)
  BY WordsFacts DEF IsList
<1>2. Given(a, 0) = <<>>
  BY DEF Given
<1> QED
  BY <1>1, <1>2, ConcatEmptySeq

LEMMA ImageStep ==
  ASSUME NEW p, IsList(p), NEW a, NEW n \in Nat
  PROVE  Append(p \o Given(a, n), <<a[n + 1]>>) = p \o Given(a, n + 1)
<1> DEFINE q == Given(a, n)
           r == Given(a, n + 1)
           x == <<a[n + 1]>>
           m == Len(p)
<1>1. /\ IsList(q) /\ Len(q) = n /\ \A i \in 1 .. n : q[i] = <<a[i]>>
  BY GivenFacts
<1>2. /\ IsList(r) /\ Len(r) = n + 1 /\ \A i \in 1 .. n + 1 : r[i] = <<a[i]>>
  <2>1. n + 1 \in Nat
    OBVIOUS
  <2> QED
    BY <2>1, GivenFacts
<1>3. m \in Nat
  BY ListFacts
<1> HIDE DEF q, r, m
<1>4. /\ IsList(p \o q) /\ Len(p \o q) = m + n
      /\ \A i \in 1 .. m : (p \o q)[i] = p[i]
      /\ \A i \in 1 .. n : (p \o q)[m + i] = q[i]
  <2>1. IsList(p) /\ IsList(q)
    BY <1>1
  <2>2. /\ IsList(p \o q) /\ Len(p \o q) = Len(p) + Len(q)
        /\ \A i \in 1 .. Len(p) : (p \o q)[i] = p[i]
        /\ \A i \in 1 .. Len(q) : (p \o q)[Len(p) + i] = q[i]
    BY ONLY <2>1, ListConcat
  <2> QED
    BY <1>1, <2>2 DEF m
<1>5. /\ IsList(p \o r) /\ Len(p \o r) = m + n + 1
      /\ \A i \in 1 .. m : (p \o r)[i] = p[i]
      /\ \A i \in 1 .. n + 1 : (p \o r)[m + i] = r[i]
  <2>1. IsList(p) /\ IsList(r)
    BY <1>2
  <2>2. /\ IsList(p \o r) /\ Len(p \o r) = Len(p) + Len(r)
        /\ \A i \in 1 .. Len(p) : (p \o r)[i] = p[i]
        /\ \A i \in 1 .. Len(r) : (p \o r)[Len(p) + i] = r[i]
    BY ONLY <2>1, ListConcat
  <2>3. /\ IsList(p \o r) /\ Len(p \o r) = m + Len(r)
        /\ \A i \in 1 .. m : (p \o r)[i] = p[i]
        /\ \A i \in 1 .. Len(r) : (p \o r)[m + i] = r[i]
    BY <2>2 DEF m
  <2> QED
    BY <1>2, <1>3, <2>3
<1>6. PICK S : p \o q \in Seq(S) /\ p \o r \in Seq(S) /\ x \in S
  <2>1. PICK A : p \o q \in Seq(A)
    BY <1>4 DEF IsList
  <2>2. PICK B : p \o r \in Seq(B)
    BY <1>5 DEF IsList
  <2> HIDE DEF x
  <2>3. p \o q \in Seq(A \cup B \cup {x}) /\ p \o r \in Seq(A \cup B \cup {x})
    <3> DEFINE u == p \o q
               v == p \o r
    <3>1. u \in Seq(A) /\ v \in Seq(B)
      BY <2>1, <2>2
    <3> HIDE DEF u, v
    <3>2. u \in Seq(A \cup B \cup {x}) /\ v \in Seq(A \cup B \cup {x})
      BY <3>1
    <3> QED
      BY <3>2 DEF u, v
  <2> QED
    BY <2>3
<1> DEFINE u == p \o q
           v == p \o r
<1>7. /\ u \in Seq(S) /\ v \in Seq(S) /\ Len(u) = m + n /\ Len(v) = m + n + 1
  BY <1>4, <1>5, <1>6
<1>8. ASSUME NEW i \in 1 .. m + n PROVE u[i] = v[i]
  <2>1. CASE i <= m
    <3>1. i \in 1 .. m
      BY <1>3, <2>1
    <3> QED
      BY <1>4, <1>5, <3>1
  <2>2. CASE ~(i <= m)
    <3>1. PICK j \in 1 .. n : i = m + j
      <4>1. i - m \in 1 .. n /\ i = m + (i - m)
        BY <1>3, <2>2
      <4> QED
        BY <4>1
    <3>2. j \in 1 .. n + 1
      OBVIOUS
    <3>3. u[m + j] = q[j] /\ v[m + j] = r[j]
      BY <1>4, <1>5, <3>2
    <3> QED
      BY <1>1, <1>2, <3>1, <3>2, <3>3
  <2> QED
    BY <2>1, <2>2
<1>9. v[m + n + 1] = x
  <2>1. n + 1 \in 1 .. n + 1 /\ m + (n + 1) = m + n + 1
    BY <1>3
  <2>2. v[m + (n + 1)] = r[n + 1]
    BY <1>5, <2>1
  <2> QED
    BY <1>2, <2>1, <2>2
<1> HIDE DEF u, v, x
<1>10. /\ Append(u, x) \in Seq(S) /\ Len(Append(u, x)) = m + n + 1
       /\ \A i \in 1 .. m + n : Append(u, x)[i] = u[i]
       /\ Append(u, x)[m + n + 1] = x
  BY <1>6, <1>7, AppendProperties
<1>11. \A i \in 1 .. m + n + 1 : Append(u, x)[i] = v[i]
  <2> TAKE i \in 1 .. m + n + 1
  <2>1. i \in 1 .. m + n \/ i = m + n + 1
    BY <1>3
  <2> QED
    BY <1>8, <1>9, <1>10, <2>1
<1>12. Append(u, x) = v
  BY <1>7, <1>10, <1>11, SeqEqual
<1> QED
  BY <1>12 DEF u, v, x, q, r

LEMMA ImageParts ==
  ASSUME NEW s, IsList(s), NEW a, NEW n \in Nat
  PROVE  LET w == Words(s) \o Given(a, n) IN
         /\ IsList(w) /\ Len(w) = Len(s) + n
         /\ \A i \in 1 .. Len(s) : w[i] = s[i].word
         /\ \A i \in 1 .. n : w[Len(s) + i] = <<a[i]>>
<1> DEFINE p == Words(s)
           q == Given(a, n)
<1>1. IsList(p) /\ Len(p) = Len(s) /\ \A i \in 1 .. Len(s) : p[i] = s[i].word
  BY WordsFacts
<1>2. IsList(q) /\ Len(q) = n /\ \A i \in 1 .. n : q[i] = <<a[i]>>
  BY GivenFacts
<1> HIDE DEF p, q
<1>3. /\ IsList(p \o q) /\ Len(p \o q) = Len(p) + Len(q)
      /\ \A i \in 1 .. Len(p) : (p \o q)[i] = p[i]
      /\ \A i \in 1 .. Len(q) : (p \o q)[Len(p) + i] = q[i]
  <2>1. IsList(p) /\ IsList(q)
    BY <1>1, <1>2
  <2> QED
    BY ONLY <2>1, ListConcat
<1>4. /\ IsList(p \o q) /\ Len(p \o q) = Len(s) + n
      /\ \A i \in 1 .. Len(s) : (p \o q)[i] = s[i].word
      /\ \A i \in 1 .. n : (p \o q)[Len(s) + i] = <<a[i]>>
  BY <1>1, <1>2, <1>3
<1> QED
  BY <1>4 DEF p, q

LEMMA ImageElements ==
  ASSUME NEW s, IsList(s), NEW a, NEW n \in Nat
  PROVE  Elements(Words(s) \o Given(a, n)) = Spelled(s) \cup {<<a[i]>> : i \in 1 .. n}
<1> DEFINE w == Words(s) \o Given(a, n)
           m == Len(s)
           args == {<<a[i]>> : i \in 1 .. n}
<1>1. /\ IsList(w) /\ Len(w) = m + n
      /\ \A i \in 1 .. m : w[i] = s[i].word
      /\ \A i \in 1 .. n : w[m + i] = <<a[i]>>
  BY ImageParts
<1>2. m \in Nat /\ DOMAIN s = 1 .. m /\ DOMAIN w = 1 .. m + n
  BY <1>1, ListFacts
<1> HIDE DEF w, m
<1>3. ASSUME NEW i \in 1 .. m + n PROVE w[i] \in Spelled(s) \cup args
  <2>1. CASE i <= m
    <3>1. i \in 1 .. m
      BY <1>2, <2>1
    <3> QED
      BY <1>1, <1>2, <3>1 DEF Spelled
  <2>2. CASE ~(i <= m)
    <3>1. PICK j \in 1 .. n : i = m + j
      <4>1. i - m \in 1 .. n /\ i = m + (i - m)
        BY <1>2, <2>2
      <4> QED
        BY <4>1
    <3> QED
      BY <1>1, <3>1
  <2> QED
    BY <2>1, <2>2
<1>4. ASSUME NEW i \in 1 .. m PROVE s[i].word \in Elements(w)
  <2>1. i \in 1 .. m + n
    BY <1>2
  <2> QED
    BY <1>1, <1>2, <2>1 DEF Elements
<1>5. ASSUME NEW i \in 1 .. n PROVE <<a[i]>> \in Elements(w)
  <2>1. m + i \in 1 .. m + n
    BY <1>2
  <2> QED
    BY <1>1, <1>2, <2>1 DEF Elements
<1>6. Elements(w) \subseteq Spelled(s) \cup args
  BY <1>2, <1>3 DEF Elements
<1>7. Spelled(s) \subseteq Elements(w)
  BY <1>2, <1>4 DEF Spelled
<1>8. args \subseteq Elements(w)
  BY <1>5
<1> HIDE DEF args
<1>9. Elements(w) = Spelled(s) \cup args
  BY <1>6, <1>7, <1>8
<1> QED
  BY <1>9 DEF w, args

LEMMA ImagePair ==
  ASSUME NEW s, IsList(s), NEW a, NEW n \in Nat, NEW x, NEW y, Adjacent(s, x, y)
  PROVE  Pair(Words(s) \o Given(a, n), x, y)
<1> DEFINE w == Words(s) \o Given(a, n)
           m == Len(s)
<1>1. Len(w) = m + n /\ m \in Nat /\ \A i \in 1 .. m : w[i] = s[i].word
  BY ImageParts, ListFacts
<1>2. PICK i \in 1 .. m - 1 : s[i].word = x /\ s[i + 1].word = y
  BY DEF Adjacent
<1> HIDE DEF w, m
<1>3. i \in 1 .. m /\ i + 1 \in 1 .. m /\ i \in 1 .. (m + n) - 1
  BY <1>1
<1>4. w[i] = x /\ w[i + 1] = y
  BY <1>1, <1>2, <1>3
<1>5. Pair(w, x, y)
  BY <1>1, <1>3, <1>4 DEF Pair
<1> QED
  BY <1>5 DEF w

LEMMA ImageWhole ==
  ASSUME NEW s, IsList(s), NEW a, NEW n \in Nat, Missing \notin Spelled(s)
  PROVE  Seen(Words(s) \o Given(a, n)) = 0
<1> DEFINE w == Words(s) \o Given(a, n)
<1>1. Missing \notin Elements(w)
  <2>1. Elements(w) = Spelled(s) \cup {<<a[i]>> : i \in 1 .. n}
    BY ImageElements
  <2>2. \A i \in 1 .. n : <<a[i]>> # Missing
    BY DEF Missing
  <2> QED
    BY <2>1, <2>2
<1>2. DOMAIN w = 1 .. Len(w)
  BY ImageParts, ListFacts
<1> HIDE DEF w
<1>3. {i \in 1 .. Len(w) : w[i] = Missing} = {}
  BY <1>1, <1>2 DEF Elements
<1>4. Seen(w) = 0
  BY <1>3 DEF Seen, SelectInSeq
<1> QED
  BY <1>4 DEF w

LEMMA ImageSuffix ==
  ASSUME NEW s, IsList(s), NEW a, NEW n \in Nat, NEW e, Ends(s, e)
  PROVE  IsSuffix(<<e>> \o Given(a, n), Words(s) \o Given(a, n))
<1> DEFINE q == Given(a, n)
           w == Words(s) \o q
           v == <<e>> \o q
           m == Len(s)
           back(i) == <<a[(n - i) + 1]>>
<1>1. /\ IsList(w) /\ Len(w) = m + n /\ \A i \in 1 .. m : w[i] = s[i].word
      /\ \A i \in 1 .. n : w[m + i] = <<a[i]>>
  BY ImageParts
<1>2. m \in Nat /\ m # 0 /\ s[m].word = e
  BY ListFacts DEF Ends
<1>3. /\ Len(v) = 1 + n /\ v[1] = e /\ \A i \in 1 .. n : v[1 + i] = <<a[i]>>
  <2> DEFINE p == <<e>>
  <2>1. IsList(p) /\ Len(p) = 1 /\ p[1] = e
    BY ListTuples
  <2>2. IsList(q) /\ Len(q) = n /\ \A i \in 1 .. n : q[i] = <<a[i]>>
    BY GivenFacts
  <2> HIDE DEF p, q
  <2>3. /\ Len(p \o q) = Len(p) + Len(q)
        /\ \A i \in 1 .. Len(p) : (p \o q)[i] = p[i]
        /\ \A i \in 1 .. Len(q) : (p \o q)[Len(p) + i] = q[i]
    <3>1. IsList(p) /\ IsList(q)
      BY <2>1, <2>2
    <3> QED
      BY ONLY <3>1, ListConcat
  <2>4. 1 \in 1 .. Len(p)
    BY <2>1
  <2>5. Len(p \o q) = 1 + n /\ (p \o q)[1] = e /\ \A i \in 1 .. n : (p \o q)[1 + i] = <<a[i]>>
    BY <2>1, <2>2, <2>3, <2>4
  <2> QED
    BY <2>5 DEF p
<1> HIDE DEF w, v, m, q
<1> DEFINE rv == Reverse(v)
           rw == Reverse(w)
<1>4. /\ rv = [i \in 1 .. 1 + n |-> v[((1 + n) - i) + 1]]
      /\ rw = [i \in 1 .. m + n |-> w[((m + n) - i) + 1]]
  BY <1>1, <1>3 DEF Reverse
<1>5. \A i \in 1 .. 1 + n : rv[i] = rw[i]
  <2> TAKE i \in 1 .. 1 + n
  <2>1. i \in 1 .. m + n
    BY <1>2
  <2>2. rv[i] = v[((1 + n) - i) + 1] /\ rw[i] = w[((m + n) - i) + 1]
    BY <1>4, <2>1
  <2>3. CASE i = 1 + n
    <3>1. ((1 + n) - i) + 1 = 1 /\ ((m + n) - i) + 1 = m /\ m \in 1 .. m
      BY <1>2, <2>3
    <3>2. rv[i] = v[1] /\ rw[i] = w[m]
      BY <2>2, <3>1
    <3>3. v[1] = e /\ w[m] = e
      BY <1>1, <1>2, <1>3, <3>1
    <3> QED
      BY <3>2, <3>3
  <2>4. CASE i # 1 + n
    <3> DEFINE j == (n - i) + 1
    <3>1. j \in 1 .. n /\ ((1 + n) - i) + 1 = 1 + j /\ ((m + n) - i) + 1 = m + j
      BY <1>2, <2>4
    <3> HIDE DEF j
    <3>2. rv[i] = v[1 + j] /\ rw[i] = w[m + j]
      BY <2>2, <3>1
    <3>3. v[1 + j] = <<a[j]>> /\ w[m + j] = <<a[j]>>
      BY <1>1, <1>3, <3>1
    <3> QED
      BY <3>2, <3>3
  <2> QED
    BY <2>3, <2>4
<1>6. Len(rv) = 1 + n /\ Len(rw) = m + n /\ 1 + n <= m + n
  BY <1>2, <1>4
<1> HIDE DEF rv, rw
<1>7. SubSeq(rv, 1, 1 + n) = SubSeq(rw, 1, 1 + n)
  <2> DEFINE V == {rv[i] : i \in 1 .. 1 + n}
  <2>1. /\ \A i \in 1 .. 1 + n : rv[i] \in V
        /\ \A i \in 1 .. 1 + n : rw[i] \in V
    BY <1>5
  <2> HIDE DEF V
  <2>2. /\ SubSeq(rv, 1, 1 + n) \in Seq(V) /\ Len(SubSeq(rv, 1, 1 + n)) = n + 1
        /\ \A i \in 1 .. (1 + n) - 1 + 1 : SubSeq(rv, 1, 1 + n)[i] = rv[1 + i - 1]
    BY <2>1, SubSeqProperties
  <2>3. /\ SubSeq(rw, 1, 1 + n) \in Seq(V) /\ Len(SubSeq(rw, 1, 1 + n)) = n + 1
        /\ \A i \in 1 .. (1 + n) - 1 + 1 : SubSeq(rw, 1, 1 + n)[i] = rw[1 + i - 1]
    BY <2>1, SubSeqProperties
  <2>4. \A i \in 1 .. n + 1 : SubSeq(rv, 1, 1 + n)[i] = SubSeq(rw, 1, 1 + n)[i]
    <3> TAKE i \in 1 .. n + 1
    <3>1. i \in 1 .. 1 + n /\ i \in 1 .. (1 + n) - 1 + 1 /\ 1 + i - 1 = i
      OBVIOUS
    <3>2. SubSeq(rv, 1, 1 + n)[i] = rv[i] /\ SubSeq(rw, 1, 1 + n)[i] = rw[i]
      BY <2>2, <2>3, <3>1
    <3> QED
      BY <1>5, <3>1, <3>2
  <2> QED
    BY <2>2, <2>3, <2>4, SeqEqual
<1>8. IsPrefix(rv, rw)
  BY <1>6, <1>7 DEF IsPrefix
<1>9. IsSuffix(v, w)
  BY <1>8 DEF IsSuffix, rv, rw
<1> QED
  BY <1>9 DEF v, w, q

(***************************************************************************)
(* The process image.                                                      *)
(***************************************************************************)

(* What the document or the profile asks for, and a configuration that has *)
(* it, as far as it is loaded.                                             *)
Settings == IF applied = NULL THEN DocSettings ELSE DocProfile(applied)

ConnectionAsked(s) ==
  LET object == Section("connection") IN
  /\ s.remote_host = Get(object, "remote_host", NULL)
  /\ s.ssh_user = Get(object, "ssh_user", "root")
  /\ s.compression = Settings.compression /\ s.video_codec = Settings.codec
ApplicationAsked(s) ==
  LET object == Section("application") IN
  /\ s.executable = Get(object, "executable", NULL)
  /\ s.args = Get(object, "args", NULL)
  /\ s.env = IF Get(object, "env", <<>>) = <<>> THEN NULL ELSE object["env"]
  /\ s.working_directory = Get(object, "working_directory", NULL)
Asked ==
  /\ pc \in Parsing \ {"connection"} =>
       Complete("connection") /\ ConnectionAsked(config.connection)
  /\ pc \in Parsing \ {"connection", "application"} =>
       Complete("application") /\ ApplicationAsked(config.application)
  /\ pc \in {"observability", "lens", "ready"} /\ Settings.rate > 0 =>
       config.performance.frame_rate = Settings.rate

(* A builder has made the beginning of the image.                          *)
Spelt == argv # NoVector => argv.words = Image(argv.lens, config, argv.done)

AskedInv ==
  /\ applied \in Profiles \cup {NULL}
  /\ pc \in Parsing \ {"ready"} => applied = NULL
  /\ shortages = 0 => Asked /\ Spelt

Sound == CleanInv /\ BalanceInv /\ AskedInv

LEMMA NoShortage ==
  ASSUME CleanInv, NEW wanted, NEW failed \in Shortfalls(wanted),
         shortages' = shortages + Cardinality(failed)
  PROVE  shortages' = 0 => shortages = 0 /\ failed = {}
<1>1. shortages \in Nat /\ Cardinality(failed) \in Nat
      /\ (failed # {} => Cardinality(failed) > 0)
  BY ShortfallCount DEF CleanInv
<1> DEFINE n == Cardinality(failed)
<1>2. n \in Nat /\ shortages \in Nat /\ shortages' = shortages + n
  BY <1>1
<1> HIDE DEF n
<1>3. shortages' = 0 => shortages = 0 /\ n = 0
  BY ONLY <1>2
<1> QED
  BY <1>1, <1>3 DEF n

(* A rate that is not negative is the same in a uint32_t.                  *)
LEMMA ModSmall ==
  ASSUME NEW n \in Nat \ {0}, NEW x \in 0 .. n - 1 PROVE x % n = x
  BY ONLY n \in Nat \ {0}, x \in 0 .. n - 1, SMTT(60)

LEMMA RateKept ==
  ASSUME document \in Documents
  PROVE  LET rate == Get(Section("performance"), "frame_rate", 60) IN
         rate > 0 => Unsigned(rate) = rate
<1> DEFINE rate == Get(Section("performance"), "frame_rate", 60)
<1>1. rate \in Int32
  <2>1. 60 \in Int32
    BY IntAssumption DEF Int32
  <2>2. Returned("frame_rate") = Int32
    BY DEF Returned, Lists
  <2> QED
    BY <2>1, <2>2, SectionReturns DEF Get, Has
<1> HIDE DEF rate
<1>2. ASSUME rate > 0 PROVE Unsigned(rate) = rate
  <2> DEFINE n == 2 * (MaxInt + 1)
  <2>1. n \in Nat \ {0} /\ rate \in 0 .. n - 1
    BY <1>1, <1>2, IntAssumption DEF Int32
  <2>2. rate % n = rate
    <3> HIDE DEF n
    <3> QED
      BY <2>1, ModSmall
  <2> QED
    BY <2>2 DEF Unsigned
<1> QED
  BY <1>2 DEF rate

(* With all the memory, copies are what they are copies of.                *)
LEMMA SameText ==
  ASSUME NEW object, NEW key, NEW default
  PROVE  Text(object, key, default, {}) = Get(object, key, default)
  BY DEF Text, Dup

LEMMA SameList ==
  ASSUME NEW key, NEW list, list = NULL \/ list \in Seq(STRING)
  PROVE  Copied(key, list, {}) = list
<1>1. CASE list = NULL
  BY <1>1 DEF Copied
<1>2. CASE list # NULL
  <2>1. list \in Seq(STRING) /\ Copied(key, list, {}) = [i \in DOMAIN list |-> list[i]]
    BY <1>2 DEF Copied
  <2> QED
    BY <2>1
<1> QED
  BY <1>1, <1>2

LEMMA BeginLoadAsked ==
  ASSUME Sound, NEW d \in Documents, BeginLoad(d), argv' = NoVector
  PROVE  AskedInv'
<1>1. pc' = "connection" /\ applied' = NULL
  BY DEF BeginLoad
<1> QED
  BY <1>1 DEF AskedInv, Asked, Spelt

LEMMA ConnectionAskedKept ==
  ASSUME Sound, ParseConnection, argv' = NoVector
  PROVE  AskedInv'
<1> DEFINE object == Section("connection")
<1>1. PICK wanted, failed, section :
         /\ failed \in Shortfalls(wanted)
         /\ Parsed("connection", section, wanted, failed, "application")
         /\ section.remote_host = Text(object, "remote_host", NULL, failed)
         /\ section.ssh_user = Text(object, "ssh_user", "root", failed)
         /\ section.compression = Text(object, "compression", "lz4", failed)
         /\ section.video_codec = Text(object, "video_codec", "h264", failed)
  BY DEF ParseConnection
<1>2. pc = "connection" /\ Complete("connection")
  BY DEF ParseConnection
<1>3. /\ shortages' = shortages + Cardinality(failed) /\ pc' = "application"
      /\ document' = document /\ applied' = applied
      /\ config' = [config EXCEPT !["connection"] = section]
  BY <1>1 DEF Parsed, Allocated
<1>4. applied = NULL
  BY <1>2 DEF Sound, AskedInv, Parsing
<1>5. ASSUME shortages' = 0 PROVE Asked'
  <2>1. failed = {}
    BY <1>1, <1>3, <1>5, NoShortage DEF Sound
  <2>2. config'.connection = section
    BY <1>2, <1>3 DEF Sound, BalanceInv, ConfigShape
  <2>3. Settings' = DocSettings
    BY <1>3, <1>4 DEF Settings, DocSettings, Section
  <2>4. object' = object /\ Complete("connection")'
    BY <1>2, <1>3 DEF Section, Complete
  <2>5. ConnectionAsked(config.connection)'
    BY <1>1, <2>1, <2>2, <2>3, <2>4, SameText DEF ConnectionAsked, DocSettings
  <2> QED
    BY <1>3, <2>4, <2>5 DEF Asked
<1> QED
  BY <1>3, <1>4, <1>5 DEF AskedInv, Spelt

LEMMA ApplicationAskedKept ==
  ASSUME Sound, ParseApplication, argv' = NoVector
  PROVE  AskedInv'
<1> DEFINE object == Section("application")
           args == Get(object, "args", NULL)
           env == IF Get(object, "env", <<>>) = <<>> THEN NULL ELSE object["env"]
<1>1. PICK wanted, failed, section :
         /\ failed \in Shortfalls(wanted)
         /\ \/ failed # {} /\ Crash(failed)
            \/ /\ Parsed("application", section, wanted, failed, "performance")
               /\ section.executable = Text(object, "executable", NULL, failed)
               /\ section.args = Copied("args", args, failed)
               /\ section.env = env
               /\ section.working_directory = Text(object, "working_directory", NULL, failed)
  <2> DEFINE wanted == Strings({"executable", "working_directory"} \cap DOMAIN object)
                         \cup Array("args", args) \cup Array("env", env)
             made(failed) ==
               [executable |-> Text(object, "executable", NULL, failed),
                args |-> Copied("args", args, failed),
                env |-> env,
                working_directory |-> Text(object, "working_directory", NULL, failed)]
  <2>1. PICK failed \in Shortfalls(wanted) :
          \/ failed # {} /\ Crash(failed)
          \/ Parsed("application", made(failed), wanted, failed, "performance")
    BY DEF ParseApplication
  <2>2. /\ made(failed).executable = Text(object, "executable", NULL, failed)
        /\ made(failed).args = Copied("args", args, failed)
        /\ made(failed).env = env
        /\ made(failed).working_directory = Text(object, "working_directory", NULL, failed)
    OBVIOUS
  <2> HIDE DEF made, wanted, args, env, object
  <2> QED
    BY <2>1, <2>2
<1>2. pc = "application" /\ Complete("application")
  BY DEF ParseApplication
<1>3. applied = NULL
  BY <1>2 DEF Sound, AskedInv, Parsing
<1>4. CASE failed # {} /\ Crash(failed)
  <2>1. shortages' # 0 /\ pc' = "crashed" /\ applied' = applied
    BY <1>1, <1>4, NoShortage DEF Crash, Sound
  <2> QED
    BY <1>3, <2>1 DEF AskedInv
<1>5. CASE /\ Parsed("application", section, wanted, failed, "performance")
           /\ section.executable = Text(object, "executable", NULL, failed)
           /\ section.args = Copied("args", args, failed)
           /\ section.env = env
           /\ section.working_directory = Text(object, "working_directory", NULL, failed)
  <2>1. /\ shortages' = shortages + Cardinality(failed) /\ pc' = "performance"
        /\ document' = document /\ applied' = applied
        /\ config' = [config EXCEPT !["application"] = section]
    BY <1>5 DEF Parsed, Allocated
  <2>2. ASSUME shortages' = 0 PROVE Asked'
    <3>1. failed = {} /\ shortages = 0
      BY <1>1, <2>1, <2>2, NoShortage DEF Sound
    <3>2. config'.application = section /\ config'.connection = config.connection
      BY <1>2, <2>1 DEF Sound, BalanceInv, ConfigShape
    <3>3. Settings' = Settings
      BY <2>1 DEF Settings, DocSettings, Section
    <3>4. \A name : Section(name)' = Section(name) /\ Complete(name)' = Complete(name)
      BY <2>1 DEF Section, Complete
    <3>5. Complete("connection") /\ ConnectionAsked(config.connection)
      BY <1>2, <3>1 DEF Sound, AskedInv, Asked, Parsing
    <3>6. Complete("connection")' /\ ConnectionAsked(config.connection)'
      BY <3>2, <3>3, <3>4, <3>5 DEF ConnectionAsked
    <3>7. args = NULL \/ args \in Seq(STRING)
      <4>1. document \in Documents
        BY <1>2 DEF Sound, BalanceInv, Parsing
      <4>2. Readably("args") = Seq(STRING) /\ Read("application")
        BY DEF Readably, Lists, ParseApplication, Read
      <4> QED
        BY <4>1, <4>2, SectionTypes DEF Get, Has
    <3>8. section.args = args
      <4> HIDE DEF args
      <4> QED
        BY <1>5, <3>1, <3>7, SameList
    <3>9. /\ section.executable = Get(object, "executable", NULL)
          /\ section.working_directory = Get(object, "working_directory", NULL)
      BY <1>5, <3>1, SameText
    <3>10. ApplicationAsked(section)'
      BY <1>5, <3>4, <3>8, <3>9 DEF ApplicationAsked
    <3>11. Complete("application")' /\ ApplicationAsked(config.application)'
      BY <1>2, <3>2, <3>4, <3>10
    <3> QED
      BY <2>1, <3>6, <3>11 DEF Asked
  <2> QED
    BY <1>3, <2>1, <2>2 DEF AskedInv, Spelt
<1> QED
  BY <1>1, <1>4, <1>5

(* A step that parses a later section leaves the earlier ones alone.       *)
LEMMA ParsedAsked ==
  ASSUME Sound, NEW wanted, NEW failed \in Shortfalls(wanted), NEW section,
         NEW name \in {"performance", "observability", "lens"},
         NEW next \in {"observability", "lens", "ready"},
         pc \in {"performance", "observability", "lens"},
         pc = "performance" <=> name = "performance",
         name = "performance" =>
           section.frame_rate = Unsigned(Get(Section("performance"), "frame_rate", 60)),
         Parsed(name, section, wanted, failed, next), argv' = NoVector
  PROVE  AskedInv'
<1>1. /\ shortages' = shortages + Cardinality(failed) /\ pc' = next
      /\ document' = document /\ applied' = applied
      /\ config' = [config EXCEPT ![name] = section]
  BY DEF Parsed, Allocated
<1>2. applied = NULL
  BY DEF Sound, AskedInv, Parsing
<1>3. ASSUME shortages' = 0 PROVE Asked'
  <2>1. shortages = 0
    BY <1>1, <1>3, NoShortage DEF Sound
  <2>2. /\ config'.application = config.application
        /\ config'.connection = config.connection
        /\ name # "performance" => config'.performance = config.performance
        /\ name = "performance" => config'.performance = section
    BY <1>1 DEF Sound, BalanceInv, ConfigShape
  <2>3. Settings' = Settings /\ Settings.rate = Get(Section("performance"), "frame_rate", 60)
    BY <1>1, <1>2 DEF Settings, DocSettings, Section
  <2>4. /\ \A n : Section(n)' = Section(n)
        /\ \A n : Complete(n)' = Complete(n)
    BY <1>1 DEF Section, Complete
  <2>5. /\ Complete("connection") /\ ConnectionAsked(config.connection)
        /\ Complete("application") /\ ApplicationAsked(config.application)
        /\ name # "performance" /\ Settings.rate > 0 =>
             config.performance.frame_rate = Settings.rate
    BY <2>1 DEF Sound, AskedInv, Asked, Parsing
  <2>6. /\ Complete("connection")' /\ ConnectionAsked(config.connection)'
        /\ Complete("application")' /\ ApplicationAsked(config.application)'
    BY <2>2, <2>3, <2>4, <2>5 DEF ConnectionAsked, ApplicationAsked
  <2>8. document \in Documents
    BY DEF Sound, BalanceInv, Parsing
  <2>7. (Settings.rate > 0 => config.performance.frame_rate = Settings.rate)'
    BY <2>2, <2>3, <2>5, <2>8, RateKept
  <2> QED
    BY <2>6, <2>7 DEF Asked
<1> QED
  BY <1>1, <1>2, <1>3 DEF AskedInv, Spelt

LEMMA SectionsAsked ==
  ASSUME Sound, ParsePerformance \/ ParseObservability \/ ParseLens, argv' = NoVector
  PROVE  AskedInv'
<1>1. CASE ParsePerformance
  <2> DEFINE object == Section("performance")
             made == [profile |-> OneOf(Profiles, Get(object, "profile", "balanced"), "balanced"),
                      target_latency |-> Unsigned(Get(object, "target_latency_ms", 50)),
                      frame_rate |-> Unsigned(Get(object, "frame_rate", 60)),
                      prediction |-> Get(object, "enable_prediction", TRUE),
                      window |-> Unsigned(Get(object, "prediction_window_ms", 16)),
                      smoothing |-> Get(object, "enable_scroll_smoothing", TRUE)]
  <2>1. Parsed("performance", made, {}, {}, "observability") /\ pc = "performance"
    BY <1>1 DEF ParsePerformance
  <2>2. {} \in Shortfalls({}) /\ made.frame_rate = Unsigned(Get(object, "frame_rate", 60))
    BY DEF Shortfalls
  <2> HIDE DEF made
  <2> QED
    BY <2>1, <2>2, ParsedAsked
<1>2. CASE ParseObservability
  <2>1. PICK wanted, failed, section :
          /\ failed \in Shortfalls(wanted) /\ pc = "observability"
          /\ Parsed("observability", section, wanted, failed, "lens")
    BY <1>2 DEF ParseObservability
  <2> QED
    BY <2>1, ParsedAsked
<1>3. CASE ParseLens
  <2>1. PICK wanted, failed, section :
          /\ failed \in Shortfalls(wanted) /\ pc = "lens"
          /\ \/ failed # {} /\ Crash(failed)
             \/ Parsed("lens", section, wanted, failed, "ready")
    BY <1>3 DEF ParseLens
  <2>2. CASE failed # {} /\ Crash(failed)
    <3>1. shortages' # 0 /\ pc' = "crashed" /\ applied' = applied
      BY <2>1, <2>2, NoShortage DEF Crash, Sound
    <3> QED
      BY <3>1 DEF Sound, AskedInv, Parsing
  <2>3. CASE Parsed("lens", section, wanted, failed, "ready")
    BY <2>1, <2>3, ParsedAsked
  <2> QED
    BY <2>1, <2>2, <2>3
<1> QED
  BY <1>1, <1>2, <1>3

(* A preset is what the documentation says of its profile.                 *)
LEMMA PresetDocumented ==
  ASSUME NEW p \in Profiles
  PROVE  /\ Preset(p).rate = DocProfile(p).rate
         /\ Preset(p).compression = DocProfile(p).compression
         /\ Preset(p).codec = DocProfile(p).codec
  BY DEF Profiles, Preset, DocProfile

LEMMA ProfileAsked ==
  ASSUME Sound, NEW p \in Profiles, ApplyProfile(p), argv' = NoVector
  PROVE  AskedInv'
<1> DEFINE section == [profile |-> p, target_latency |-> Preset(p).latency,
                       frame_rate |-> Preset(p).rate,
                       prediction |-> Preset(p).prediction,
                       window |-> Preset(p).window,
                       smoothing |-> Preset(p).smoothing]
           compression(failed) == Dup("compression", Preset(p).compression, failed)
           codec(failed) == Dup("video_codec", Preset(p).codec, failed)
           limit == Preset(p).limit
<1>1. PICK failed \in Shortfalls(Strings(Replaced)) :
        /\ config' = [config EXCEPT !.performance = section,
                                    !.connection.compression = compression(failed),
                                    !.connection.video_codec = codec(failed),
                                    !.connection.bandwidth_limit = limit]
        /\ shortages' = shortages + Cardinality(failed)
  BY DEF ApplyProfile
<1>2. /\ section.frame_rate = Preset(p).rate
      /\ failed = {} => /\ compression(failed) = Preset(p).compression
                        /\ codec(failed) = Preset(p).codec
  BY DEF Dup
<1> HIDE DEF section, compression, codec, limit
<1>3. pc' = pc /\ pc = "ready" /\ document' = document /\ applied' = p
  BY DEF ApplyProfile
<1>4. ASSUME shortages' = 0 PROVE Asked'
  <2>1. failed = {} /\ shortages = 0
    BY <1>1, <1>4, NoShortage DEF Sound
  <2>2. ConfigShape(config)
    BY <1>3 DEF Sound, BalanceInv
  <2>3. /\ config'.application = config.application
        /\ config'.performance = section
        /\ config'.connection =
             [config.connection EXCEPT !.compression = compression(failed),
                                       !.video_codec = codec(failed),
                                       !.bandwidth_limit = limit]
    BY <1>1, <2>2 DEF ConfigShape
  <2>4. /\ config'.connection.remote_host = config.connection.remote_host
        /\ config'.connection.ssh_user = config.connection.ssh_user
        /\ config'.connection.compression = Preset(p).compression
        /\ config'.connection.video_codec = Preset(p).codec
    BY <1>2, <2>1, <2>2, <2>3 DEF ConfigShape, ConnectionShape, Texts
  <2>5. Settings' = DocProfile(p)
    <3>1. p # NULL
      BY NullAssumption
    <3> QED
      BY <1>3, <3>1 DEF Settings
  <2>6. /\ \A n : Section(n)' = Section(n)
        /\ \A n : Complete(n)' = Complete(n)
    BY <1>3 DEF Section, Complete
  <2>7. /\ Complete("connection") /\ ConnectionAsked(config.connection)
        /\ Complete("application") /\ ApplicationAsked(config.application)
    BY <1>3, <2>1 DEF Sound, AskedInv, Asked, Parsing
  <2>8. ConnectionAsked(config.connection)'
    BY <2>4, <2>5, <2>6, <2>7, PresetDocumented DEF ConnectionAsked
  <2>9. ApplicationAsked(config.application)'
    BY <2>3, <2>6, <2>7 DEF ApplicationAsked
  <2>10. (config.performance.frame_rate = Settings.rate)'
    BY <1>2, <2>3, <2>5, PresetDocumented
  <2> QED
    BY <2>6, <2>7, <2>8, <2>9, <2>10 DEF Asked
<1> QED
  BY <1>3, <1>4 DEF AskedInv, Spelt, Parsing

LEMMA LoaderAsked ==
  ASSUME Sound, ConfigNext, argv' = NoVector
  PROVE  AskedInv'
<1>1. CASE Reject \/ FreeConfig
  <2>1. pc' = "none" /\ applied' = applied
    BY <1>1 DEF Reject, FreeConfig
  <2> QED
    BY <2>1 DEF Sound, AskedInv, Asked, Spelt, Parsing
<1>2. CASE ReadNull
  <2>1. pc' = "crashed" /\ applied' = applied
    BY <1>2 DEF ReadNull, Crash
  <2> QED
    BY <2>1 DEF Sound, AskedInv, Asked, Spelt, Parsing
<1> QED
  BY <1>1, <1>2, BeginLoadAsked, ConnectionAskedKept, ApplicationAskedKept,
     SectionsAsked, ProfileAsked DEF ConfigNext

(***************************************************************************)
(* The builders.                                                           *)
(***************************************************************************)
LEMMA CommandList ==
  ASSUME NEW c, NEW lens \in Lenses
  PROVE  IsList(CommandWords(lens, c))
<1>1. PICK S : CommandWords(lens, c) \in Seq(S)
  <2>1. lens \in LensTypes \ {"auto"}
    BY DEF Lenses, LensTypes
  <2> QED
    BY <2>1, PrefixShort DEF Short
<1> QED
  BY <1>1 DEF IsList

LEMMA LaunchCrashAsked ==
  ASSUME AskedInv, NEW failures, LaunchCrash(failures), pc = "ready", shortages' # 0
  PROVE  AskedInv'
<1>1. pc' = "crashed" /\ applied' = applied
  BY DEF LaunchCrash
<1> QED
  BY <1>1 DEF AskedInv, Parsing

(* The builders do not touch what the configuration is compared with.      *)
LEMMA LoaderIdle ==
  ASSUME AskedInv, Loader
  PROVE  /\ applied' \in Profiles \cup {NULL}
         /\ pc' \in Parsing \ {"ready"} => applied' = NULL
         /\ Asked => Asked'
<1>1. UNCHANGED <<pc, document, config, applied>>
  BY DEF Loader
<1>2. Settings' = Settings
  BY <1>1 DEF Settings, DocSettings, Section
<1>3. /\ \A n : Section(n)' = Section(n)
      /\ \A n : Complete(n)' = Complete(n)
  BY <1>1 DEF Section, Complete
<1>4. /\ ConnectionAsked(config.connection)' = ConnectionAsked(config.connection)
      /\ ApplicationAsked(config.application)' = ApplicationAsked(config.application)
  BY <1>1, <1>2, <1>3 DEF ConnectionAsked, ApplicationAsked
<1>5. Asked => Asked'
  BY <1>1, <1>2, <1>3, <1>4 DEF Asked
<1> QED
  BY <1>1, <1>5 DEF AskedInv

LEMMA BeginArgvAsked ==
  ASSUME Sound, NEW lens \in LensTypes \ {"auto"}, BeginArgv(lens)
  PROVE  AskedInv'
<1> DEFINE words == CommandWords(lens, config)
           made(failed) == [i \in DOMAIN words |->
                              IF i \in failed THEN Missing ELSE words[i].word]
<1>1. PICK failed \in Shortfalls(DOMAIN words) :
        \/ \E i \in DOMAIN words : LaunchCrash(Cardinality(failed))
        \/ /\ shortages' = shortages + Cardinality(failed)
           /\ Loader /\ UNCHANGED argv
        \/ /\ shortages' = shortages + Cardinality(failed)
           /\ Loader
           /\ argv' = [lens |-> lens, slots |-> InitialSlots, done |-> 0,
                       words |-> made(failed)]
  BY DEF BeginArgv
<1>2. pc = "ready" /\ argv = NoVector
  BY DEF BeginArgv
<1>3. CASE LaunchCrash(Cardinality(failed))
  <2>2. shortages' # 0
    BY <1>3, BeginArgvKeeps DEF Sound, LaunchCrash
  <2> QED
    BY <1>2, <1>3, <2>2, LaunchCrashAsked DEF Sound
<1>4. CASE shortages' = shortages + Cardinality(failed) /\ Loader /\ UNCHANGED argv
  <2>1. shortages' = 0 => shortages = 0
    BY <1>1, <1>4, NoShortage DEF Sound
  <2>2. Spelt'
    BY <1>2, <1>4 DEF Spelt
  <2> QED
    BY <1>4, <2>1, <2>2, LoaderIdle DEF Sound, AskedInv
<1>5. CASE /\ shortages' = shortages + Cardinality(failed) /\ Loader
           /\ argv' = [lens |-> lens, slots |-> InitialSlots, done |-> 0,
                       words |-> made(failed)]
  <2>1. shortages' = 0 => shortages = 0 /\ failed = {}
    BY <1>1, <1>5, NoShortage DEF Sound
  <2>2. ASSUME failed = {} PROVE Spelt'
    <3>1. made({}) = Words(words)
      BY DEF Words
    <3> HIDE DEF made
    <3>2. argv'.lens = lens /\ argv'.done = 0 /\ argv'.words = Words(words)
      BY <1>5, <2>2, <3>1
    <3>3. config' = config
      BY <1>5 DEF Loader
    <3>4. lens \in Lenses
      BY DEF Lenses, LensTypes
    <3>5. IsList(words)
      BY <3>4, CommandList
    <3>6. Image(lens, config, 0) = Words(words)
      BY <3>5, ImageBegun DEF Image
    <3> HIDE DEF words
    <3>7. argv'.words = Image(argv'.lens, config', argv'.done)
      BY <3>2, <3>3, <3>6
    <3> QED
      BY <3>7 DEF Spelt
  <2> QED
    BY <1>5, <2>1, <2>2, LoaderIdle DEF Sound, AskedInv
<1> QED
  BY <1>1, <1>3, <1>4, <1>5

(* The lens of a builder is one of the three.                              *)
LEMMA BuilderLens ==
  ASSUME BalanceInv, pc = "ready", argv # NoVector
  PROVE  argv.lens \in Lenses /\ {"lens", "done", "words"} \subseteq DOMAIN argv
         /\ argv.done \in Nat
<1>1. BalanceInv => TypeOK
  BY BalanceTypes
<1>2. argv.lens \in Candidates(config) /\ Candidates(config) \subseteq Lenses
  BY <1>1 DEF TypeOK, Lenses
<1>3. {"lens", "done", "words"} \subseteq DOMAIN argv
  BY DEF BalanceInv, Underway
<1>4. argv.done \in Nat
  <2>1. Len(Arguments(argv.lens, config)) \in Nat
    BY ArgumentsType DEF BalanceInv
  <2>2. argv.done \in 0 .. Len(Arguments(argv.lens, config))
    BY DEF BalanceInv, Underway
  <2> QED
    BY <2>1, <2>2
<1> QED
  BY <1>2, <1>3, <1>4

LEMMA AppendArgAsked ==
  ASSUME Sound, AppendArg
  PROVE  AskedInv'
<1> DEFINE args == Arguments(argv.lens, config)
           arg == args[argv.done + 1]
<1>1. pc = "ready" /\ argv # NoVector
  BY DEF AppendArg
<1>2. argv.lens \in Lenses /\ {"lens", "done", "words"} \subseteq DOMAIN argv
      /\ argv.done \in Nat
  BY <1>1, BuilderLens DEF Sound
<1>3. CASE LaunchCrash(0)
  <2>2. shortages' # 0
    BY <1>3, AppendArgKeeps DEF Sound, LaunchCrash
  <2> QED
    BY <1>1, <1>3, <2>2, LaunchCrashAsked DEF Sound
<1>4. ASSUME NEW failed \in Shortfalls({"strdup"}), NEW slots, NEW word,
             word = IF failed = {} THEN <<arg>> ELSE Missing,
             argv' = [argv EXCEPT !.slots = slots, !.words = Append(@, word), !.done = @ + 1],
             Allocated({"strdup"}, failed), Loader
      PROVE  AskedInv'
  <2>1. shortages' = 0 => shortages = 0 /\ failed = {}
    BY <1>4, NoShortage DEF Sound, Allocated
  <2>2. ASSUME failed = {}, Spelt PROVE Spelt'
    <3> DEFINE p == Words(CommandWords(argv.lens, config))
               n == argv.done
    <3>1. /\ argv'.lens = argv.lens /\ argv'.done = n + 1
          /\ argv'.words = Append(argv.words, <<args[n + 1]>>)
      BY <1>2, <1>4, <2>2
    <3>2. argv.words = p \o Given(args, n)
      BY <1>1, <2>2 DEF Spelt, Image
    <3>3. IsList(p)
      BY <1>2, CommandList, WordsFacts
    <3>4. config' = config
      BY <1>4 DEF Loader
    <3>5. n \in Nat
      BY <1>2
    <3> HIDE DEF p, n, args
    <3>6. Append(p \o Given(args, n), <<args[n + 1]>>) = p \o Given(args, n + 1)
      BY <3>3, <3>5, ImageStep
    <3>7. argv'.words = p \o Given(args, n + 1)
      BY <3>1, <3>2, <3>6
    <3>8. p \o Given(args, n + 1) = Image(argv.lens, config, n + 1)
      BY DEF Image, p, args
    <3>9. argv'.words = Image(argv'.lens, config', argv'.done)
      BY <3>1, <3>4, <3>7, <3>8
    <3> QED
      BY <3>9 DEF Spelt
  <2> QED
    BY <1>4, <2>1, <2>2, LoaderIdle DEF Sound, AskedInv
<1> QED
  BY <1>3, <1>4 DEF AppendArg

LEMMA AskedInductive == Sound /\ [Next]_vars => AskedInv'
<1> SUFFICES ASSUME Sound, [Next]_vars
             PROVE  AskedInv'
  OBVIOUS
<1>1. CASE argv = NoVector /\ ConfigNext /\ argv' = NoVector
  BY <1>1, LoaderAsked
<1>2. CASE \E lens \in LensTypes \ {"auto"} : BeginArgv(lens)
  BY <1>2, BeginArgvAsked
<1>3. CASE AppendArg
  BY <1>3, AppendArgAsked
<1>4. CASE GrowthFails
  <2>1. Loader /\ argv' = NoVector /\ (shortages' = 0 => shortages = 0)
    <3>1. shortages' = shortages + 1 /\ shortages \in Nat
      BY <1>4 DEF GrowthFails, Sound, CleanInv
    <3>2. shortages' # 0
      BY <3>1
    <3> QED
      BY <1>4, <3>2 DEF GrowthFails
  <2> QED
    BY <2>1, LoaderIdle DEF Sound, AskedInv, Spelt
<1>5. CASE Exec
  <2>1. PICK wanted : \E failed \in Shortfalls(wanted) :
          /\ Loader /\ argv' = NoVector
          /\ shortages' = shortages + Cardinality(failed)
    BY <1>5 DEF Exec
  <2>2. shortages' = 0 => shortages = 0
    BY <2>1, NoShortage DEF Sound
  <2> QED
    BY <2>1, <2>2, LoaderIdle DEF Sound, AskedInv, Spelt
<1>6. CASE UNCHANGED vars
  <2>1. Loader /\ argv' = argv /\ shortages' = shortages
    BY <1>6 DEF vars, configVars, Loader
  <2>2. config' = config
    BY <2>1 DEF Loader
  <2>3. Spelt => Spelt'
    BY <2>1, <2>2 DEF Spelt
  <2> QED
    BY <2>1, <2>3, LoaderIdle DEF Sound, AskedInv
<1> QED
  BY <1>1, <1>2, <1>3, <1>4, <1>5, <1>6 DEF Next

(***************************************************************************)
(* What execvp() gets.                                                     *)
(***************************************************************************)
(* No word of a command is missing, and the executable ends it.            *)
LEMMA CommandWhole ==
  ASSUME NEW c, NEW lens \in Lenses, c.application.executable # NULL
  PROVE  /\ IsList(CommandWords(lens, c)) /\ Missing \notin Spelled(CommandWords(lens, c))
         /\ Ends(CommandWords(lens, c), <<c.application.executable>>)
         /\ lens # "waypipe" =>
              /\ c.connection.video_codec # NULL =>
                   Adjacent(CommandWords(lens, c), <<"--codec">>,
                            <<c.connection.video_codec>>)
              /\ c.performance.frame_rate # 0 =>
                   Adjacent(CommandWords(lens, c), <<"--fps">>,
                            <<"fps", c.performance.frame_rate>>)
<1>1. CASE lens = "waypipe"
  <2>1. Missing \notin WaypipeSpelling(c)
    BY DEF WaypipeSpelling, Missing
  <2>2. CommandWords(lens, c) = WaypipeWords(c)
    BY <1>1 DEF CommandWords
  <2> QED
    BY <1>1, <2>1, <2>2, WaypipeSpelled
<1>2. CASE lens = "sunshine"
  <2> DEFINE app == <<Literal("--app")>>
  <2>1. IsList(app) /\ Spelled(app) = {<<"--app">>}
    <3>1. Literal("--app").word = <<"--app">>
      BY DEF Literal
    <3> QED
      BY <3>1, ListTuples, SpelledTuples
  <2>2. Missing \notin Spelled(app)
    BY <2>1 DEF Missing
  <2>3. CommandWords(lens, c) = StreamWords(c, "sunshine", "--host", 47989, app)
    BY <1>2 DEF CommandWords, SunshineWords
  <2> HIDE DEF app
  <2> QED
    BY <2>1, <2>2, <2>3, StreamSpelled
<1>3. CASE lens = "moonlight"
  <2>1. IsList(<<>>) /\ Missing \notin Spelled(<<>>)
    BY ListTuples, SpelledTuples
  <2>2. CommandWords(lens, c) = StreamWords(c, "moonlight", "stream", 47984, <<>>)
    BY <1>3 DEF CommandWords, MoonlightWords
  <2> QED
    BY <2>1, <2>2, StreamSpelled
<1> QED
  BY <1>1, <1>2, <1>3 DEF Lenses

(* Only the option is of two texts and reads so; arguments are of one.     *)
LEMMA CompressedImage ==
  ASSUME NEW words, NEW c, NEW A, c.connection.compression # NULL,
         \A x \in A : \E text : x = <<text>>,
         Elements(words) = WaypipeSpelling(c) \cup A
  PROVE  Compressed(words) = IF c.connection.compression = "none" THEN {}
                             ELSE {<<"--compress=", c.connection.compression>>}
<1> DEFINE conn == c.connection
           wanted == IF conn.compression = "none" THEN {}
                     ELSE {<<"--compress=", conn.compression>>}
           is(x) == Len(x) = 2 /\ x[1] = "--compress="
<1>1. \A text : Len(<<text>>) # 2
  OBVIOUS
<1>2. Len(<<conn.ssh_user, "@", conn.remote_host>>) # 2
  OBVIOUS
<1>3. <<"--video-codec=", conn.video_codec>>[1] # "--compress="
  OBVIOUS
<1>4. is(<<"--compress=", conn.compression>>)
  OBVIOUS
<1>5. /\ \A x \in A : ~is(x)
      /\ ~is(<<conn.ssh_user, "@", conn.remote_host>>)
      /\ ~is(<<"--video-codec=", conn.video_codec>>)
      /\ \A text : ~is(<<text>>)
  BY <1>1, <1>2, <1>3
<1> HIDE DEF is
<1>6. {x \in WaypipeSpelling(c) : is(x)} = wanted
  BY <1>4, <1>5 DEF WaypipeSpelling
<1>7. {x \in A : is(x)} = {}
  BY <1>5
<1>8. Compressed(words) = {x \in WaypipeSpelling(c) \cup A : is(x)}
  BY DEF Compressed, is
<1> HIDE DEF wanted
<1>9. Compressed(words) = wanted
  BY <1>6, <1>7, <1>8
<1> QED
  BY <1>9 DEF wanted

(* The settings are texts, whoever made them.                              *)
LEMMA SettingsTypes ==
  ASSUME AskedInv, document \in Documents, Read("connection")
  PROVE  Settings.compression # NULL /\ Settings.codec # NULL
<1>1. CASE applied = NULL
  <2>1. DocSettings.compression # NULL /\ DocSettings.codec # NULL
    <3>1. /\ DocSettings.compression = Get(Section("connection"), "compression", "lz4")
          /\ DocSettings.codec = Get(Section("connection"), "video_codec", "h264")
      BY DEF DocSettings
    <3>2. NULL # "lz4" /\ NULL # "h264"
      BY NullAssumption
    <3> QED
      BY <3>1, <3>2, SectionTypes DEF Get, Has
  <2> QED
    BY <1>1, <2>1 DEF Settings
<1>2. CASE applied # NULL
  <2>1. applied \in Profiles
    BY <1>2 DEF AskedInv
  <2>2. NULL \notin {"lz4", "zstd", "h264", "h265"}
    BY NullAssumption
  <2>3. DocProfile(applied).compression # NULL /\ DocProfile(applied).codec # NULL
    BY <2>1, <2>2 DEF Profiles, DocProfile
  <2> QED
    BY <1>2, <2>3 DEF Settings
<1> QED
  BY <1>1, <1>2

(* What the document says, in the configuration.                           *)
LEMMA AskedFacts ==
  ASSUME Sound, pc = "ready", shortages = 0
  PROVE  LET app == document.application
             conn == document.connection
         IN
         /\ document \in Documents
         /\ config.application.executable = app.executable /\ app.executable # NULL
         /\ \A lens : Arguments(lens, config) = Get(app, "args", <<>>)
         /\ Get(app, "args", <<>>) \in Seq(STRING)
         /\ config.application.env =
              IF Get(app, "env", <<>>) = <<>> THEN NULL ELSE app.env
         /\ config.application.working_directory = Get(app, "working_directory", NULL)
         /\ config.connection.remote_host = conn.remote_host
         /\ config.connection.ssh_user = Get(conn, "ssh_user", "root")
         /\ config.connection.compression = Settings.compression
         /\ config.connection.video_codec = Settings.codec
         /\ Settings.rate > 0 => config.performance.frame_rate = Settings.rate
         /\ Read("connection")
         /\ config.application.env = NULL \/ config.application.env \in Seq(STRING)
<1> DEFINE app == document.application
           conn == document.connection
           args == Get(app, "args", <<>>)
<1>1. document \in Documents
  BY DEF Sound, BalanceInv, Parsing
<1>2. /\ Complete("connection") /\ ConnectionAsked(config.connection)
      /\ Complete("application") /\ ApplicationAsked(config.application)
      /\ Settings.rate > 0 => config.performance.frame_rate = Settings.rate
      /\ Read("connection") /\ Read("application")
  <2>1. Gathered /\ Asked
    BY DEF Sound, AskedInv, CleanInv
  <2> QED
    BY <2>1 DEF Gathered, Asked, Parsing
<1>3. /\ Section("connection") = conn /\ Has(conn, "remote_host")
      /\ Section("application") = app /\ Has(app, "executable")
      /\ Has(document, "application")
  BY <1>2 DEF Complete, RequiredKey, Section, Get, Has
<1>4. /\ \A key \in DOMAIN app : app[key] # NULL
      /\ args \in Seq(STRING)
      /\ Has(app, "env") => app.env \in Seq(STRING)
  <2>1. Readably("env") = Seq(STRING)
    BY DEF Readably, Lists
  <2>2. \A key \in DOMAIN app : app[key] # NULL /\ app[key] \in Readably(key)
    BY <1>1, <1>2, <1>3, SectionTypes
  <2>3. args \in Seq(STRING)
    BY <1>1, <1>2, <1>3, DocumentTypes
  <2> QED
    BY <2>1, <2>2, <2>3 DEF Has
<1>5. /\ config.application.executable = app.executable /\ app.executable # NULL
      /\ config.application.args = Get(app, "args", NULL)
      /\ config.application.env =
           IF Get(app, "env", <<>>) = <<>> THEN NULL ELSE app.env
      /\ config.application.working_directory = Get(app, "working_directory", NULL)
  BY <1>2, <1>3, <1>4 DEF ApplicationAsked, Get, Has
<1>8. config.application.env = NULL \/ config.application.env \in Seq(STRING)
  BY <1>4, <1>5 DEF Get, Has
<1>6. /\ config.connection.remote_host = conn.remote_host
      /\ config.connection.ssh_user = Get(conn, "ssh_user", "root")
      /\ config.connection.compression = Settings.compression
      /\ config.connection.video_codec = Settings.codec
  BY <1>2, <1>3 DEF ConnectionAsked, Get
<1>7. ASSUME NEW lens PROVE Arguments(lens, config) = args
  <2>1. CASE Has(app, "args")
    <3>1. config.application.args = app.args /\ app.args # NULL /\ args = app.args
      BY <1>4, <1>5, <2>1 DEF Get, Has
    <3> QED
      BY <1>5, <3>1 DEF Arguments
  <2>2. CASE ~Has(app, "args")
    <3>1. config.application.args = NULL /\ args = <<>>
      BY <1>5, <2>2 DEF Get
    <3> QED
      BY <3>1 DEF Arguments
  <2> QED
    BY <2>1, <2>2
<1> QED
  BY <1>1, <1>2, <1>4, <1>5, <1>6, <1>7, <1>8

LEMMA ExecImage ==
  ASSUME Sound, Exec
  PROVE  LaunchAsConfigured'
<1> SUFFICES ASSUME shortages' = 0 PROVE LaunchAsConfigured'
  BY DEF LaunchAsConfigured
<1> DEFINE app == document.application
           conn == document.connection
           args == Get(app, "args", <<>>)
           lens == argv.lens
           c == config
           s == CommandWords(lens, c)
           n == Len(args)
           words == Words(s) \o Given(args, n)
           exe == <<app.executable>>
           user == <<Get(conn, "ssh_user", "root"), "@", conn.remote_host>>
           entries == IF c.application.env = NULL THEN {}
                      ELSE {"env"} \X DOMAIN c.application.env
<1>15. PICK failed \in Shortfalls(entries), stays \in BOOLEAN :
         /\ shortages' = shortages + Cardinality(failed)
         /\ launched' = [lens |-> lens,
                          words |-> IF Seen(argv.words) = 0 THEN argv.words
                                    ELSE SubSeq(argv.words, 1, Seen(argv.words) - 1),
                          env |-> Copied("env", c.application.env, failed),
                          directory |-> IF stays THEN NULL
                                        ELSE c.application.working_directory,
                          stays |-> stays]
  BY DEF Exec
<1>1. /\ pc = "ready" /\ argv # NoVector /\ shortages = 0 /\ failed = {}
      /\ argv.done = Len(Arguments(lens, c))
      /\ UNCHANGED <<document, config, applied>>
  <2>1. shortages = 0 /\ failed = {}
    BY <1>15, NoShortage DEF Sound
  <2> QED
    BY <2>1 DEF Exec, Loader
<1>2. /\ document \in Documents
      /\ c.application.executable = app.executable /\ app.executable # NULL
      /\ Arguments(lens, c) = args
      /\ args \in Seq(STRING)
      /\ c.application.env = IF Get(app, "env", <<>>) = <<>> THEN NULL ELSE app.env
      /\ c.application.working_directory = Get(app, "working_directory", NULL)
      /\ c.connection.remote_host = conn.remote_host
      /\ c.connection.ssh_user = Get(conn, "ssh_user", "root")
      /\ c.connection.compression = Settings.compression
      /\ c.connection.video_codec = Settings.codec
      /\ Settings.rate > 0 => c.performance.frame_rate = Settings.rate
      /\ Read("connection")
      /\ c.application.env = NULL \/ c.application.env \in Seq(STRING)
  BY <1>1, AskedFacts
<1>3. lens \in Lenses /\ n \in Nat
  BY <1>1, <1>2, BuilderLens DEF Sound
<1>4. argv.words = words
  BY <1>1, <1>2 DEF Sound, AskedInv, Spelt, Image
<1>5. /\ IsList(s) /\ Missing \notin Spelled(s) /\ Ends(s, exe)
      /\ lens # "waypipe" =>
           /\ c.connection.video_codec # NULL =>
                Adjacent(s, <<"--codec">>, <<c.connection.video_codec>>)
           /\ c.performance.frame_rate # 0 =>
                Adjacent(s, <<"--fps">>, <<"fps", c.performance.frame_rate>>)
  BY <1>2, <1>3, CommandWhole
<1>6. Settings.compression # NULL /\ Settings.codec # NULL
  BY <1>2, SettingsTypes DEF Sound
<1>7. Seen(words) = 0
  <2> HIDE DEF s, n, args
  <2> QED
    BY <1>3, <1>5, ImageWhole
<1>8. launched' = [lens |-> lens, words |-> words, env |-> c.application.env,
                   directory |-> IF stays THEN NULL
                                 ELSE c.application.working_directory,
                   stays |-> stays]
  <2>1. Copied("env", c.application.env, failed) = c.application.env
    BY <1>1, <1>2, SameList
  <2> HIDE DEF words, lens, c
  <2> QED
    BY <1>4, <1>7, <1>15, <2>1
<1>9. IsSuffix(<<exe>> \o [i \in DOMAIN args |-> <<args[i]>>], words)
  <2>1. [i \in DOMAIN args |-> <<args[i]>>] = Given(args, n)
    BY <1>2 DEF Given
  <2> HIDE DEF s, n, args, exe
  <2>2. IsSuffix(<<exe>> \o Given(args, n), words)
    BY <1>3, <1>5, ImageSuffix
  <2> HIDE DEF words
  <2> QED
    BY <2>1, <2>2
<1>10. ASSUME lens = "waypipe"
       PROVE  /\ Compressed(words) = IF Settings.compression = "none" THEN {}
                                     ELSE {<<"--compress=", Settings.compression>>}
              /\ <<"--video-codec=", Settings.codec>> \in Elements(words)
              /\ Pair(words, <<"--ssh">>, user)
  <2> DEFINE A == {<<args[i]>> : i \in 1 .. n}
  <2>1. /\ IsList(s) /\ Spelled(s) = WaypipeSpelling(c)
        /\ Adjacent(s, <<"--ssh">>, <<c.connection.ssh_user, "@", c.connection.remote_host>>)
    <3>1. s = WaypipeWords(c)
      BY <1>10 DEF CommandWords
    <3> HIDE DEF s, c
    <3> QED
      BY <3>1, WaypipeSpelled
  <2>2. Elements(words) = WaypipeSpelling(c) \cup A
    <3> HIDE DEF s, n, args
    <3> QED
      BY <1>3, <2>1, ImageElements
  <2>3. \A x \in A : \E text : x = <<text>>
    OBVIOUS
  <2>4. Compressed(words) = IF Settings.compression = "none" THEN {}
                            ELSE {<<"--compress=", Settings.compression>>}
    <3>1. c.connection.compression # NULL
      BY <1>2, <1>6
    <3> HIDE DEF words, A, c
    <3>2. Compressed(words) = IF c.connection.compression = "none" THEN {}
                              ELSE {<<"--compress=", c.connection.compression>>}
      BY ONLY <2>2, <2>3, <3>1, CompressedImage
    <3> QED
      BY <1>2, <3>2
  <2>5. <<"--video-codec=", Settings.codec>> \in WaypipeSpelling(c)
    BY <1>2, <1>6 DEF WaypipeSpelling
  <2>6. Pair(words, <<"--ssh">>, user)
    <3>1. Adjacent(s, <<"--ssh">>, user)
      BY <1>2, <2>1
    <3> HIDE DEF s, n, args, user
    <3> QED
      BY <1>3, <1>5, <3>1, ImagePair
  <2> HIDE DEF words, A
  <2> QED
    BY <2>2, <2>4, <2>5, <2>6
<1>11. ASSUME lens # "waypipe"
       PROVE  /\ Pair(words, <<"--codec">>, <<Settings.codec>>)
              /\ Settings.rate > 0 => Pair(words, <<"--fps">>, <<"fps", Settings.rate>>)
  <2>1. /\ Adjacent(s, <<"--codec">>, <<Settings.codec>>)
        /\ Settings.rate > 0 => Adjacent(s, <<"--fps">>, <<"fps", Settings.rate>>)
    <3> HIDE DEF s
    <3> QED
      BY <1>2, <1>5, <1>6, <1>11
  <2> HIDE DEF s, n, args
  <2>2. Pair(words, <<"--codec">>, <<Settings.codec>>)
    BY <1>3, <1>5, <2>1, ImagePair
  <2>3. Settings.rate > 0 => Pair(words, <<"--fps">>, <<"fps", Settings.rate>>)
    BY <1>3, <1>5, <2>1, ImagePair
  <2> QED
    BY <2>2, <2>3
<1>12. (IF applied = NULL THEN DocSettings ELSE DocProfile(applied))' = Settings
  BY <1>1 DEF Settings, DocSettings, Section
<1>13. document' = document
  BY <1>1
<1>14. /\ launched'.lens = lens /\ launched'.words = words
       /\ launched'.env = c.application.env
       /\ launched'.directory =
            IF launched'.stays THEN NULL ELSE c.application.working_directory
  <2> HIDE DEF words, lens, c
  <2> QED
    BY <1>8
<1> HIDE DEF words, lens, c, s, n
<1>16. shortages' = 0 /\ document'.application = app /\ document'.connection = conn
  BY <1>13
<1> QED
  BY <1>2, <1>9, <1>10, <1>11, <1>12, <1>13, <1>14 DEF LaunchAsConfigured

(* Until the configuration changes, nothing that an image is compared with *)
(* does.                                                                   *)
LEMMA ImageKept ==
  ASSUME CleanInv, LaunchAsConfigured,
         launched' = launched, document' = document, applied' = applied,
         shortages' = 0 => shortages = 0
  PROVE  LaunchAsConfigured'
<1>1. /\ DocSettings' = DocSettings
      /\ (IF applied = NULL THEN DocSettings ELSE DocProfile(applied))'
           = (IF applied = NULL THEN DocSettings ELSE DocProfile(applied))
  BY DEF DocSettings, Section
<1> QED
  BY <1>1 DEF LaunchAsConfigured

LEMMA ImageInductive ==
  Sound /\ LaunchAsConfigured /\ [Next]_vars => LaunchAsConfigured'
<1> SUFFICES ASSUME Sound, LaunchAsConfigured, [Next]_vars
             PROVE  LaunchAsConfigured'
  OBVIOUS
<1>1. CASE argv = NoVector /\ ConfigNext /\ argv' = NoVector /\ launched' = NULL
  BY <1>1 DEF LaunchAsConfigured
<1>2. CASE \E lens \in LensTypes \ {"auto"} : BeginArgv(lens)
  <2>1. PICK wanted : \E failed \in Shortfalls(wanted) :
          /\ shortages' = shortages + Cardinality(failed)
          /\ launched' = launched /\ document' = document /\ applied' = applied
    BY <1>2 DEF BeginArgv, LaunchCrash, Loader
  <2>2. shortages' = 0 => shortages = 0
    BY <2>1, NoShortage DEF Sound
  <2> QED
    BY <2>1, <2>2, ImageKept DEF Sound
<1>3. CASE AppendArg
  <2>1. launched' = launched /\ document' = document /\ applied' = applied
    BY <1>3 DEF AppendArg, LaunchCrash, Loader
  <2>2. shortages' = 0 => shortages = 0
    <3>1. CASE LaunchCrash(0)
      BY <3>1 DEF LaunchCrash, Sound, CleanInv
    <3>2. CASE \E failed \in Shortfalls({"strdup"}) : Allocated({"strdup"}, failed)
      BY <3>2, NoShortage DEF Sound, Allocated
    <3>3. LaunchCrash(0) \/ \E failed \in Shortfalls({"strdup"}) : Allocated({"strdup"}, failed)
      BY <1>3 DEF AppendArg
    <3> QED
      BY <3>1, <3>2, <3>3
  <2> QED
    BY <2>1, <2>2, ImageKept DEF Sound
<1>4. CASE GrowthFails
  <2>1. shortages' = shortages + 1 /\ shortages \in Nat
    BY <1>4 DEF GrowthFails, Sound, CleanInv
  <2>2. shortages' # 0
    BY <2>1
  <2> QED
    BY <2>2 DEF LaunchAsConfigured
<1>5. CASE Exec
  BY <1>5, ExecImage
<1>6. CASE UNCHANGED vars
  <2>1. /\ launched' = launched /\ document' = document /\ applied' = applied
        /\ shortages' = shortages
    BY <1>6 DEF vars, configVars
  <2> QED
    BY <2>1, ImageKept DEF Sound
<1> QED
  BY <1>1, <1>2, <1>3, <1>4, <1>5, <1>6 DEF Next

(* Unless memory ran short, every program is executed with the settings of *)
(* the profile applied last, or the document's; with its executable and    *)
(* all its arguments at the end; in its environment; and in its directory, *)
(* or in that of the parent where chdir() failed: for any JSON documents,  *)
(* any number of loads, profiles and attempts, and vectors that grow any   *)
(* number of times (schema.c:16-260, profiles.c:9-100,                     *)
(* lens_waypipe.c:57-130, 179-198, and the same of the other lenses).      *)
THEOREM Faithful == Spec => []LaunchAsConfigured
<1> DEFINE All == Sound /\ LaunchAsConfigured
<1>1. LaunchInit => All
  <2> SUFFICES ASSUME LaunchInit PROVE All
    OBVIOUS
  <2>1. pc = "none" /\ applied = NULL /\ argv = NoVector /\ launched = NULL
        /\ live = 0 /\ lost = 0 /\ shortages = 0
    BY DEF LaunchInit, Init
  <2>2. CleanInv
    BY <2>1 DEF CleanInv, Gathered, Parsing
  <2>3. BalanceInv
    BY <2>1 DEF BalanceInv, Unparsed, Underway, Building, Parsing
  <2>4. AskedInv
    BY <2>1 DEF AskedInv, Asked, Spelt, Parsing
  <2>5. LaunchAsConfigured
    BY <2>1 DEF LaunchAsConfigured
  <2> QED
    BY <2>2, <2>3, <2>4, <2>5 DEF Sound
<1>2. All /\ [Next]_vars => All'
  BY CleanInductive, BalanceInductive, AskedInductive, ImageInductive DEF Sound
<1>3. All => LaunchAsConfigured
  OBVIOUS
<1> HIDE DEF All
<1> QED
  BY <1>1, <1>2, <1>3, PTL DEF Spec

===============================================================================
