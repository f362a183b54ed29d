------------------------ MODULE MCTransformPipeline ------------------------
(* Values for the model checking of TransformPipeline: a stored image and    *)
(* one named by URL, each large at first and small once it has been          *)
(* replaced, and an uploaded SVG of small size.                              *)
EXTENDS TransformPipeline, TLC

CONSTANTS r1, r2, file, url, up, png, mark

MCPixelsOf == [i \in Images |-> [g \in Gens |-> IF i # up /\ g = 1 THEN 2 ELSE 1]]

\* The file and the upload with and without the watermark, the file with its
\* format negotiated, and the URL by every version.
MCAsked ==
  [src : {file, up}, version : {0}, format : {png}, wm : {NoWm, mark}] \cup
  [src : {file}, version : {0, 1}, format : {Unset}, wm : {NoWm}] \cup
  [src : {url}, version : {0, 1, 2}, format : {png}, wm : {NoWm}] \cup
  [src : {url}, version : {1}, format : {Unset}, wm : {NoWm}]

MCSymmetryTwo == Permutations({r1, r2})
=============================================================================
