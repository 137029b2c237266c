--------------------------- MODULE MCFileToReport ---------------------------
(* Source files, small ones of every kind, and those followed to the reports. *)
EXTENDS FileToReport

NoHeader == [container |-> Absent, stream |-> 0, fps |-> 0, start_time |-> 0, time_base |-> "fine", transfer |-> "", has_video |-> FALSE]
Falling == [q \in 1..5 |-> 10 * q]
Plain == [width |-> 20, height |-> 10, across |-> 0, down |-> 0, orientation |-> 0, exif |-> "fine", rgb |-> TRUE, kb |-> Falling]
Frame(scene, at, key) == [scene |-> scene, at |-> at, timed |-> at # Absent, counted |-> at # Absent, key |-> key]
Scenes(seq) == [i \in DOMAIN seq |-> Frame(seq[i], i, TRUE)]
P(a, b) == [from |-> a, to |-> b, dash |-> TRUE]
One(a) == [from |-> a, to |-> Absent, dash |-> FALSE]
File(kind, typed, frames, picture, head) == [kind |-> kind, typed |-> typed, frames |-> frames, mode |-> "SUMMARY", mpo |-> FALSE, picture |-> picture, header |-> head]
PageRangesTyped == {{}, {Blank}, {One(2)}, {P(2, 3)}, {P(Absent, 2), One(4)}, {P(3, Absent)}, {One(1), P(3, 5)}, {P(4, 6), Blank}, {One(6)}, {One(1), One(6)}, {One(1), P(6, Absent)}}
Documents == {File("document", typed, Scenes([i \in 1..n |-> 0]), Plain, NoHeader) : typed \in PageRangesTyped, n \in 0..5}
Pictures ==
  {[width |-> w, height |-> 10, across |-> d[1], down |-> d[2], orientation |-> o, exif |-> e, rgb |-> r, kb |-> [q \in 1..5 |-> k * q]] :
     w \in {1, 20, 30}, d \in {<<0, 0>>, <<72, 72>>, <<2, 1>>, <<1, 2>>, <<100, 101>>}, o \in {0, 1, 6, 9}, e \in {"fine", "lost", "broken"}, r \in BOOLEAN, k \in {5, 10, 20, 50}}
Images == {File("image", {}, Scenes(<<0>>), p, NoHeader) : p \in Pictures}
   \cup {[File("image", typed, Scenes(<<0, 0, 0>>), Plain, NoHeader) EXCEPT !.mpo = m] : typed \in {{}, {P(2, 5)}, {One(6)}}, m \in BOOLEAN}
Animations == {File("animation", typed, Scenes(<<a, b, c, d, e>>), Plain, NoHeader) : typed \in {{}, {P(2, Absent)}}, a \in {0}, b \in 0..2, c \in 0..2, d \in 0..2, e \in 0..2}
   \cup {File("animation", {One(2), One(7)}, Scenes(<<0, 0, 1>>), Plain, NoHeader), File("animation", {One(4)}, Scenes(<<0, 0, 1>>), Plain, NoHeader)}
H(c, s, st, tr) == [container |-> c, stream |-> s, fps |-> 1, start_time |-> st, time_base |-> "fine", transfer |-> tr, has_video |-> TRUE]
Stream(ats, keys, scenes) == [i \in DOMAIN ats |-> Frame(scenes[i], ats[i], i \in keys)]
Videos ==
  {[File("video", typed, fr, Plain, h) EXCEPT !.mode = m] : m \in {"SUMMARY", "SAMPLING"},
     typed \in {{}, {P(2, 5)}, {One(4)}, {One(6), One(7)}, {P(6, Absent), One(1)}, {P(9, Absent)}, {P(3, 3)}, {P(1, 12)}},
     fr \in {Stream(<<0, 2, 4, 6>>, {1, 3}, <<0, 1, 2, 3>>), [Stream(<<1, 3, Absent, 5, 6>>, {1, 4}, <<0, 0, 5, 2, 2>>) EXCEPT ![2].timed = FALSE], << >>},
     h \in {H(8, Absent, 0, ""), H(6, Absent, 1, "HLG"), H(Absent, 7, 0, ""), H(Absent, 0, 0, ""), H(0, Absent, 0, ""), [H(8, 8, 0, "") EXCEPT !.time_base = "zero"], NoHeader}}
Dated(keys) == [i \in 1..4 |-> [Frame(i, 2 * i - 2, TRUE) EXCEPT !.counted = i \in keys]]
Undated ==
  {File("video", typed, Dated(keys), Plain, h) :
     typed \in {{}, {One(4)}}, keys \in {{}, {1, 2}, {2, 3, 4}}, h \in {H(8, Absent, 0, ""), H(Absent, -2, 0, ""), H(Absent, 0, 0, "")}}
Others == {File(k, {}, << >>, Plain, NoHeader) : k \in {"unknown", "empty"}}
MCReported ==
  {File("document", {}, Scenes(<<0, 0, 0>>), Plain, NoHeader),
   File("animation", {}, Scenes(<<0, 3, 3>>), Plain, NoHeader),
   [File("video", {One(3)}, Stream(<<0, 2, 4, 6>>, {1, 3}, <<0, 1, 2, 3>>), Plain, H(8, Absent, 0, "")) EXCEPT !.mode = "SAMPLING"]}
MCFiles == Documents \cup Images \cup Animations \cup Videos \cup Undated \cup Others \cup MCReported
=============================================================================
