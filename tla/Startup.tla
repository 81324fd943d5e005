------------------------------- MODULE Startup -------------------------------
(***************************************************************************)
(* From the command line to a configuration (src/main.cpp up to the first  *)
(* log line, src/config.cpp, src/json.cpp): parse_args, Config::load, and  *)
(* the overrides.  What follows is in Publisher.                           *)
(***************************************************************************)
EXTENDS JsonParser

CONSTANTS
    Files,        \* configuration files: [exists, text, holds, fit], with what
                  \* was written in it and whether that makes a configuration
    CommandLines  \* [words, fit]: a word is <<"word", string>>, or
                  \* <<"number", n>> when atoi makes n of it

\* What was written in a file is what its text denotes, if it denotes anything.
ASSUME StartupAssumption ==
    /\ \A f \in Files : /\ f.text \in Seq(Token)
                        /\ Denoted(f.text) # {} => f.holds \in Denoted(f.text)
    /\ \A c \in CommandLines :
          c.words \in Seq(({"word"} \X STRING) \cup ({"number"} \X Int))

VARIABLES
    file,     \* the file at args.config
    command,  \* argv, as given
    argv,     \* the words parse_args has yet to look at
    args,     \* Args
    config,   \* Config
    phase     \* where main is

svars == <<pvars, file, command, argv, args, config, phase>>

-----------------------------------------------------------------------------
(* Config *)

\* The members of Config, YuvConfig and AbrConfig and their defaults, which
\* also say what type a key must have.
Defaults ==
    [mode |-> <<"String", "encoded">>, source_clip |-> <<"String", "source.mp4">>,
     encoded_target_kbps |-> <<"Number", 650000>>, channel |-> <<"String", "bwe_test">>,
     publisher_uid |-> <<"Number", 100000>>, frame_rate |-> <<"Number", 3000>>,
     gop_frames |-> <<"Number", 6000>>, audio_sample_rate |-> <<"Number", 1600000>>,
     audio_channels |-> <<"Number", 100>>, audio_file |-> <<"String", "audio.pcm">>,
     start_level |-> <<"Number", 300>>, log_file |-> <<"String", "stats.txt">>,
     network_log |-> <<"String", "network.log">>, loop_content |-> <<"Bool", TRUE>>]
YuvDefaults ==
    [width |-> <<"Number", 128000>>, height |-> <<"Number", 72000>>,
     bitrate_kbps |-> <<"Number", 200000>>, min_bitrate_kbps |-> <<"Number", 0>>]
AbrDefaults ==
    [selector |-> <<"String", "recommended">>, headroom |-> <<"Number", 85>>,
     bwe_window_s |-> <<"Number", 200>>, tick_interval_ms |-> <<"Number", 50000>>,
     br_downgrade_factor |-> <<"Number", 130>>,
     br_downgrade_duration_s |-> <<"Number", 300>>,
     br_upgrade_factor |-> <<"Number", 120>>,
     br_upgrade_duration_s |-> <<"Number", 1000>>,
     cooldown_after_switch_s |-> <<"Number", 500>>,
     stale_receiver_timeout_s |-> <<"Number", 1000>>]
LevelTypes == [id |-> "Number", width |-> "Number", height |-> "Number",
               bitrate_kbps |-> "Number", file |-> "String"]

\* The *_or accessors of every key of defaults, and whether one throws.
Read(v, defaults) ==
    [key \in DOMAIN defaults |-> IF Has(v, key) THEN v[2][key] ELSE defaults[key]]
Mistyped(v, defaults) ==
    \E key \in DOMAIN defaults : Has(v, key) /\ v[2][key][1] # defaults[key][1]

\* A section that is missing, or not even an object, leaves the defaults.
Section(root, key) == IF Has(root, key) THEN root[2][key] ELSE <<"Null">>

Ladder(root) == IF Has(root, "levels") /\ root[2]["levels"][1] = "Array"
                THEN root[2]["levels"][2] ELSE << >>

IsLevel(v) == \A key \in DOMAIN LevelTypes :
                 Has(v, key) /\ v[2][key][1] = LevelTypes[key]

\* Mutant: the last rung counted from one.
OnLadderOrAbove(l, levels) == 0 <= l /\ l <= Len(levels)

OnLadder(l, levels) == 0 <= l /\ l < Len(levels)

LoadThrows(root) ==
    \/ Mistyped(root, Defaults)
    \/ Mistyped(Section(root, "yuv"), YuvDefaults)
    \/ Mistyped(Section(root, "abr"), AbrDefaults)
    \/ Ladder(root) = << >>   \* 'levels' is no array, or empty
    \/ \E i \in DOMAIN Ladder(root) : ~IsLevel(Ladder(root)[i])
    \/ /\ ~Mistyped(root, Defaults)
       /\ ~OnLadder(AsInt(Read(root, Defaults).start_level[2]), Ladder(root))

Loaded(root) ==
    LET r == Read(root, Defaults)
    IN  [scalars |-> r,
         yuv     |-> Read(Section(root, "yuv"), YuvDefaults),
         abr     |-> Read(Section(root, "abr"), AbrDefaults),
         levels  |-> Ladder(root),
         mode    |-> IF r.mode[2] = "yuv" THEN "YUV" ELSE "ENCODED",
         start_level |-> AsInt(r.start_level[2])]

-----------------------------------------------------------------------------
(* main *)

Options == {"--appid", "--token", "--channel", "--uid", "--config",
            "--start-level", "--mode"}

Unset == <<"word", "">>

Atoi(word) == IF word[1] = "number" THEN word[2] ELSE 0

Init == \E f \in Files, c \in CommandLines :
           /\ PInit(f.text)
           /\ file = f
           /\ command = c
           /\ argv = c.words
           /\ args = [o \in Options |-> IF o = "--start-level" THEN <<"number", -1>>
                                        ELSE Unset]
           /\ config = <<"none">>
           /\ phase = "args"

Go(p) == phase' = p /\ UNCHANGED <<pvars, file, command>>

IsOption == argv # << >> /\ argv[1][1] = "word" /\ argv[1][2] \in Options

\* Whatever follows an option is its value, an option included.
TakeOption == /\ phase = "args" /\ IsOption /\ Len(argv) > 1
              /\ args' = [args EXCEPT ![argv[1][2]] = argv[2]]
              /\ argv' = SubSeq(argv, 3, Len(argv))
              /\ Go("args") /\ UNCHANGED config

\* No option (--help among them), or one without its value.
BadUsage == /\ phase = "args" /\ argv # << >>
            /\ ~(IsOption /\ Len(argv) > 1)
            /\ Go("exit") /\ UNCHANGED <<argv, args, config>>

ArgsParsed == /\ phase = "args" /\ argv = << >>
              /\ Go(IF args["--appid"] = Unset \/ ~file.exists THEN "exit" ELSE "parse")
              /\ UNCHANGED <<argv, args, config>>

ParseStep == /\ phase = "parse"
             /\ Parse
             /\ UNCHANGED <<file, command, argv, args, config, phase>>

\* Config::load throws, in the parser or after it.
LoadFails == /\ phase = "parse"
             /\ state = "thrown" \/ (state = "parsed" /\ LoadThrows(value))
             /\ Go("exit") /\ UNCHANGED <<argv, args, config>>

Load == /\ phase = "parse" /\ state = "parsed" /\ ~LoadThrows(value)
        /\ config' = Loaded(value)
        /\ Go("override") /\ UNCHANGED <<argv, args>>

\* Mutant: the level given is taken without a look at the ladder.
GoodOverrideOrLoaded(m, l) == m \in {<<"word", "yuv">>, <<"word", "encoded">>, Unset}

GoodOverride(m, l) == /\ m \in {<<"word", "yuv">>, <<"word", "encoded">>, Unset}
                      /\ l < 0 \/ OnLadder(l, config.levels)

BadOverride == /\ phase = "override"
               /\ ~GoodOverride(args["--mode"], Atoi(args["--start-level"]))
               /\ Go("exit") /\ UNCHANGED <<argv, args, config>>

Override ==
    LET m == args["--mode"]
        l == Atoi(args["--start-level"])
    IN  /\ phase = "override" /\ GoodOverride(m, l)
        /\ config' = [config EXCEPT
              !.mode = IF m = Unset THEN @ ELSE IF m[2] = "yuv" THEN "YUV" ELSE "ENCODED",
              !.start_level = IF l < 0 THEN @ ELSE l,
              !.scalars.channel = IF args["--channel"] = Unset THEN @
                                  ELSE <<"String", args["--channel"][2]>>,
              !.scalars.publisher_uid = IF args["--uid"] = Unset THEN @
                                        ELSE <<"Number", 100 * Atoi(args["--uid"])>>]
        /\ Go("run") /\ UNCHANGED <<argv, args>>

Next == \/ TakeOption \/ BadUsage \/ ArgsParsed
        \/ ParseStep \/ LoadFails \/ Load
        \/ BadOverride \/ Override

Spec == Init /\ [][Next]_svars /\ WF_svars(Next)

-----------------------------------------------------------------------------
\* json.h: a text that holds no document makes parse throw; and of one that
\* does, the parser returns what was written, however it is nested, the last
\* of two members of one name.
ParsesWhatIsWritten == state = "parsed" => value = file.holds

\* What the rest of the program takes for granted of a configuration, wherever
\* it came from: a ladder of complete rungs, and a start level on it, so that
\* every target level is an index of levels_, readers_ and config_.levels.
ConfigIsUsable ==
    phase = "run" =>
        /\ config.levels # << >>
        /\ config.start_level \in 0 .. Len(config.levels) - 1
        /\ \A i \in DOMAIN config.levels : IsLevel(config.levels[i])

\* The process comes up on every input it should, and on no other.
ComesUpIfFit == <>[](phase = IF file.fit /\ command.fit THEN "run" ELSE "exit")
=============================================================================
