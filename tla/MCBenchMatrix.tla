---------------------------- MODULE MCBenchMatrix ----------------------------
(* Ways to start the two benchmarks.                                         *)
EXTENDS HardwareMatrix

\* Two colours by two variants, with samples.
Square == [outer |-> <<"full", "256">>, inner |-> <<"baseline", "auto-tiles">>,
           frames |-> 2, repeats |-> 1, saveSamples |-> TRUE]

\* Two variants, each over a corpus of two frames twice.
Repeated == [outer |-> <<"full">>, inner |-> <<"baseline", "auto-tiles">>,
             frames |-> 2, repeats |-> 2, saveSamples |-> FALSE]

\* One variant that is not the baseline, with samples.
WithoutBaseline == [outer |-> <<"full">>, inner |-> <<"auto-tiles">>,
                    frames |-> 3, repeats |-> 1, saveSamples |-> TRUE]

\* Two qualities of one encoder, then a name that is refused.
BadName == [outer |-> <<"h264_nvenc", "vp9">>,
            inner |-> <<<<"default", 1000>>, <<"default", 1004>>>>,
            frames |-> 2, repeats |-> 1, saveSamples |-> TRUE,
            valid |-> {"h264_nvenc", "hevc_nvenc"}]

\* Both encoders, repeated.
Encoders == [BadName EXCEPT !.outer = <<"h264_nvenc", "hevc_nvenc">>,
                            !.inner = <<<<"default", 1000>>>>,
                            !.frames = 1, !.repeats = 2, !.saveSamples = FALSE]

AllOptions == {Square, Repeated, BadName, Encoders}
OnlyWithoutBaseline == {WithoutBaseline}
=============================================================================
