-------------------------- MODULE MCOutputCompare --------------------------
(* The characters for TLC. *)
EXTENDS OutputCompare

\* Two printed ones, so that lines may differ in what they print, and one of each
\* other kind: blank, the one of "\r\n", newline.
TestChars == {"x", "y", " ", "\r", "\n"}
=============================================================================
