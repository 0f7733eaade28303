--------------------------- MODULE MCVideoIngest ---------------------------
(* Small instances of VideoIngest for TLC: videos 1 and 2 are uploads, whose *)
(* ids (up_...) sort before the YouTube ids (yt_...).                        *)
EXTENDS VideoIngest, TLC

\* An upload belongs to the tenant it was presigned for; anybody may submit a
\* YouTube video.
MCRequesters == [v \in Videos |-> IF v \in Uploads THEN {CHOOSE u \in Users : TRUE} ELSE Users]

\* The uploads are copies of one file.
MCContent == [v \in Videos |-> IF v \in Uploads THEN 0 ELSE v]

\* Tenants and workers can be exchanged where all of them may do the same: no
\* safety property follows one of them.
Interchangeable == Permutations(Users) \cup Permutations(Workers)

=============================================================================
