--------------------------- MODULE MCCourseImport ---------------------------
(* Small catalogs and listings for TLC. *)
EXTENDS CourseImport, TLC

CONSTANTS c1, c2, k1, k2, h1, p1, p2

E(k, c, p, kind) == [class |-> k, course |-> c, prof |-> p, kind |-> kind]

\* Two classes; then one of them moves to another course and professor, is
\* listed twice, and the other loses its meetings.
TwoListings ==
  {{E(k1, c1, p1, "taught"), E(k2, c1, NoProf, "taught")},
   {E(k1, c2, p2, "taught"), E(k1, c1, p1, "dummy"), E(k2, c1, p1, "bare")}}
OneListing == {{E(k1, c1, p1, "taught"), E(k2, c1, p1, "taught")}}
NoListing == {{}}

Pairs(S) == {[course |-> x[1], req |-> x[2]] : x \in S}
OneCatalog == {[codes |-> Courses, prereqs |-> {}, antireqs |-> {}]}
TwoCatalogs ==
  {[codes |-> Courses, prereqs |-> Pairs({<<c1, c2>>}), antireqs |-> Pairs({<<c1, c2>>})],
   [codes |-> Courses, prereqs |-> Pairs({<<c2, c1>>}), antireqs |-> Pairs({<<c2, c1>>})]}

\* Code p2 is an alias of professor p1.
OneRemap == {[code |-> p2, prof |-> p1]}
NoRemap == {}

RunSymmetry == Permutations(Runs)
=============================================================================
