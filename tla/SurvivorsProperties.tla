------------------------ MODULE SurvivorsProperties -------------------------
(* What a synchronized reader may rely on in the rows the kernels packed.   *)
EXTENDS Survivors

\* Row k is one candidate through and through: the box, the query index, the
\* mask and the embedding of an instance, or the keypoint, its score, its
\* image-space position and its descriptor, are all of the same thread and of
\* this frame; only an instance without a mask has a zero embedding.
RowsAligned ==
    Synced => \A b \in Batch : \A k \in 0 .. ReadCount(b) - 1 :
        \E l \in Lanes : \A c \in Columns :
            \/ ReadRow(b, k)[c] = Of(l)
            \/ c = "feats" /\ l \in in.empty /\ ReadRow(b, k)[c] = Zero

\* No candidate is read twice, none that did not survive is read, and one is
\* left out only when the result is full: whatever order the threads reserve
\* and write their rows in.
EverySurvivorOnce ==
    Synced => \A b \in Batch :
        LET Lead == IF crate = "xfeat" THEN "kpts" ELSE "dets"
            Read == {rows[b][Lead][k].of : k \in 0 .. ReadCount(b) - 1}
        IN  /\ Read \subseteq Survivors(b)
            /\ Cardinality(Read) = ReadCount(b)
            /\ ReadCount(b) = Min({Cardinality(Survivors(b)), Cap})

\* The cutoff costs no keypoints: a result holds K of them, or all there are;
\* and it lets none in that K others beat by a whole bucket.
CutoffFillsResult ==
    (Synced /\ crate = "xfeat") => \A b \in Batch :
        LET Read == {rows[b].kpts[k].of : k \in 0 .. ReadCount(b) - 1}
            Better(p) == {n \in Lit(b) :
                            Bucket(score[b][n]) > Bucket(score[b][p])}
        IN  /\ Cardinality(Read) = Min({Cardinality(Lit(b)), TopK})
            /\ \A p \in Read : Cardinality(Better(p)) < TopK

\* The comment above the kernels: the selection is "Approximate only at the
\* boundary bucket", so a keypoint of a higher bucket is never left out.
ApproximateOnlyAtBoundary ==
    (Synced /\ crate = "xfeat") => \A b \in Batch :
        LET Read == {rows[b].kpts[k].of : k \in 0 .. ReadCount(b) - 1}
        IN  \A p \in Lit(b) :
                Bucket(score[b][p]) > cut[b] \div PerBin => p \in Read

\* What the reader of a result gets: the survivors, each once, with everything
\* that belongs to one in its row.
PackedOnce == RowsAligned /\ EverySurvivorOnce
==============================================================================
