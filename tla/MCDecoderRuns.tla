--------------------------- MODULE MCDecoderRuns ---------------------------
EXTENDS DecoderRuns, SequencesExt

Openings == { <<19, 1, 2>>, <<21, 1, 2, 3, 4>>, <<1, 1, 2, 3, 4>> }
Middles == { <<>>, <<129, 0, 9>>, <<32, 1, 4, 0>>, <<24, 0, 1, 0, 0>>,
             <<0, 0>>, <<4, 0>>, <<1, 5, 6, 7, 8>> }
Ends == { <<17, 0, 0>>, <<16, 0, 1, 2, 0>>, <<23, 1, 0, 7>> }

Streams == { a \o b \o c : a \in Openings, b \in Middles, c \in Ends }
               \cup { a \o b \o c \o d : a \in Openings, b \in Middles, c \in Middles,
                                         d \in { <<17, 0, 0>> } }

Junk == { <<>>, <<0>>, <<17, 0, 0>>, <<200, 1>> }

\* Around the lengths these streams decode to.
RunBounds == {3, 4, 7, 8, 18, 19, 80}
=============================================================================
