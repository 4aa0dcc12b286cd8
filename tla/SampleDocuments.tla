--------------------------- MODULE SampleDocuments ---------------------------
(***************************************************************************)
(* The documents a session is run on: they take the codec to its edges.    *)
(***************************************************************************)
EXTENDS ChannelCodec

\* A timer, an output and a missing input, which the round trip changes, a word
\* the serializer does not understand and a constant that comes back scaled.
Mixed == {Drawn("digital_input", 1, {}, <<>>), Drawn("power_output", 2, {}, <<>>),
          Drawn("can_rx", 3, {}, [byte_order |-> "word"]),
          Drawn("timer", 4, {2}, <<>>), Drawn("logic", 5, {53, 1}, <<>>)}
\* A channel without a number, an H-bridge, whose settings do not return, a
\* number that is rounded and a filter whose time does not fit its field.
Bridge == {Drawn("analog_input", 1, {}, <<>>), Drawn("hbridge", 2, {}, <<>>),
           Drawn("can_tx", 0, {}, <<>>), Drawn("number", 4, {}, [constant_value |-> "rough"]),
           Drawn("filter", 5, {1}, [time_constant |-> "outside"]),
           Drawn("pid", 6, {4}, [output_max |-> "rough"])}
\* More than the packet holds.
TooLong == Mixed \cup {Drawn("table_2d", 6, {1}, [x_values |-> "rough"]),
                       Drawn("switch", 7, {}, <<>>)}

\* The document after a change, and the uploads of its handlers: a new document
\* makes none, an addition, a deletion and a file make one, an edit makes two.
UserChanges == {<<{}, 0>>, <<{}, 1>>, <<TooLong, 1>>, <<Bridge, 2>>}
UserDocs  == {change[1] : change \in UserChanges}
SavedDocs == {Mixed}                 \* documents whose image the node starts with

\* All documents of a session, and the images they have: after five round trips
\* a document is one that has been before.
Reread(docs) == UNION {docs, {Loaded(Image(d)) : d \in {e \in docs : Whole(Image(e))}}}
Documents == Reread(Reread(Reread(Reread(Reread(UNION {UserDocs, SavedDocs})))))
ImageOf == [d \in Documents |-> Image(d)]
Images == {ImageOf[d] : d \in Documents}
LoadedFrom == [i \in Images |-> Loaded(i)]

\* They are all there are: an erased node has the image of one of them, and a
\* whole image reads back as one of them.  The tree could hold each of them.
ASSUME DocumentsAssumption ==
    /\ Blank \in Images
    /\ \A image \in Images : Whole(image) => LoadedFrom[image] \in Documents
    /\ \A document \in Documents : Numbered(document)
=============================================================================
