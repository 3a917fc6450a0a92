----------------------------- MODULE MCComposer -----------------------------
(* Two photos, one of them a video, one upload slot, one edit or retry of    *)
(* each, one post.                                                           *)
EXTENDS Composer

CONSTANTS p1, p2

MCPhotos == {p1, p2}
MCVideos == {p2}
=============================================================================
