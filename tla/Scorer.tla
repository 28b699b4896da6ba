------------------------------- MODULE Scorer -------------------------------
(***************************************************************************)
(* The metrics of docker/eval/score.py, as functions of the labels and the *)
(* predictions.                                                            *)
(*                                                                         *)
(*   box        [x, y, w, h] in pixels                                     *)
(*   object     [box, class, ignore] of the labels                         *)
(*   detection  [box, class, score] of the predictions                     *)
(*   a label    [id, class, objects, ignored_regions], one for each image  *)
(*   a prediction                                                          *)
(*              [id, class, detections], one for each image                *)
(*                                                                         *)
(* Coordinates and scores are integers.  An overlap, a threshold and a     *)
(* precision are fractions <<numerator, denominator>>.  Validation of JSON *)
(* types is left out, the checks between the documents are kept.           *)
(***************************************************************************)
EXTENDS Integers, SequencesExt

CONSTANTS
    Thresholds,          \* labels["iou_thresholds"], fractions in (0, 1]
    recall_limits,       \* labels["recall_limits"]
    maximum_detections   \* labels["max_detections"]

ASSUME ScorerAssumption ==
    /\ \A t \in Thresholds :
          t \in Nat \X (Nat \ {0}) /\ 0 < t[1] /\ t[1] <= t[2]
    /\ maximum_detections \in Nat \ {0}
    /\ recall_limits \subseteq 1 .. maximum_detections
    /\ IsFiniteSet(recall_limits)

\* What _bbox and the checks of items accept.
Boxes      == [x : Nat, y : Nat, w : Nat \ {0}, h : Nat \ {0}]
Detections == [box : Boxes, class : Int, score : Nat]
Objects    == [box : Boxes, class : Int, ignore : BOOLEAN]
Labels     == [id : Nat, class : Int, objects : Seq(Objects), ignored_regions : Seq(Boxes)]

-----------------------------------------------------------------------------
(* Parts of lists, and lists in order.                                     *)

\* The k-th smallest of a set of places, and the items of a list at the places.
Nth(places, k) ==
    CHOOSE i \in places : Cardinality({j \in places : j <= i}) = k
At(items, places) == [k \in 1 .. Cardinality(places) |-> items[Nth(places, k)]]

\* The place an item has among the sorted ones; equal scores keep their order.
Rank(items, i) ==
    Cardinality({ j \in DOMAIN items :
                    \/ items[j].score > items[i].score
                    \/ items[j].score = items[i].score /\ j <= i })

\* sorted(..., reverse=True) by score.
ByScore(items) ==
    [k \in DOMAIN items |-> items[CHOOSE i \in DOMAIN items : Rank(items, i) = k]]

-----------------------------------------------------------------------------
(* Areas.                                                                  *)

Least(a, b) == IF a <= b THEN a ELSE b
Greatest(a, b) == IF a >= b THEN a ELSE b

Area(box) == box.w * box.h

\* What two boxes share, which may be empty.
Clip(a, b) ==
    [l |-> Greatest(a.x, b.x), t |-> Greatest(a.y, b.y),
     r |-> Least(a.x + a.w, b.x + b.w), b |-> Least(a.y + a.h, b.y + b.h)]

\* _intersection_area.
IntersectionArea(a, b) ==
    LET c == Clip(a, b) IN Greatest(0, c.r - c.l) * Greatest(0, c.b - c.t)

\* The intervals <<top, bottom>> of a strip, sorted.
Before(i, j) == i[1] < j[1] \/ (i[1] = j[1] /\ i[2] <= j[2])
Interval(intervals, k) ==
    CHOOSE i \in intervals : Cardinality({j \in intervals : Before(j, i)}) = k

\* The length of their union: what is behind the current stretch, and the stretch.
CoveredHeight(intervals) ==
    LET n == Cardinality(intervals)
        Merge(m, i) ==
            IF i[1] > m.end
            THEN [sum |-> m.sum + (m.end - m.start), start |-> i[1], end |-> i[2]]
            ELSE [m EXCEPT !.end = Greatest(@, i[2])]
        merged[k \in 1 .. n] ==
            LET i == Interval(intervals, k)
            IN  IF k = 1 THEN [sum |-> 0, start |-> i[1], end |-> i[2]]
                ELSE Merge(merged[k - 1], i)
    IN  IF intervals = {} THEN 0
        ELSE merged[n].sum + (merged[n].end - merged[n].start)

\* _covered_area: a sweep over the vertical strips between two edges.
ClippedTo(box, regions) ==
    { c \in {Clip(box, r) : r \in ToSet(regions)} : c.l < c.r /\ c.t < c.b }
Edges(clipped) == {c.l : c \in clipped} \cup {c.r : c \in clipped}
NextEdge(edges, x) == Min({y \in edges : y > x})
Strip(clipped, l, r) ==
    (r - l) * CoveredHeight({<<c.t, c.b>> : c \in {c \in clipped : c.l < r /\ c.r > l}})
CoveredArea(box, regions) ==
    LET clipped == ClippedTo(box, regions)
        edges == Edges(clipped)
        lefts == {x \in edges : \E y \in edges : y > x}
    IN  SumFunction([x \in lefts |-> Strip(clipped, x, NextEdge(edges, x))])

\* _in_ignored_region.
InIgnoredRegion(box, regions) == 2 * CoveredArea(box, regions) >= Area(box)

AtLeast(f, g) == f[1] * g[2] >= g[1] * f[2]

\* _overlap: over the detection alone when the object is ignored.
Overlap(box, object) ==
    LET shared == IntersectionArea(box, object.box)
    IN  <<shared, IF object.ignore THEN Area(box)
                  ELSE Area(box) + Area(object.box) - shared>>

-----------------------------------------------------------------------------
(* Matching.                                                               *)

\* sorted(ground_truths): what is ignored comes last.
Ordered(objects) ==
    At(objects, {i \in DOMAIN objects : ~objects[i].ignore})
        \o At(objects, {i \in DOMAIN objects : objects[i].ignore})

\* Variant: a detection looks at ignored objects though it has a match.
BestNoBreak(objects, matched, box, threshold) ==
    LET Try(best, i) ==
            LET o == Overlap(box, objects[i])
            IN  IF i \in matched \/ ~AtLeast(o, best.overlap) THEN best
                ELSE [best EXCEPT !.overlap = o, !.index = i,
                                  !.match = IF objects[i].ignore THEN -1 ELSE 1]
    IN  FoldLeftDomain(Try, [overlap |-> threshold, index |-> 0, match |-> 0], objects)

\* The inner loop of _match_image: the object a detection is given.
Best(objects, matched, box, threshold) ==
    LET Try(best, i) ==
            LET o == Overlap(box, objects[i])
            IN  IF \/ i \in matched
                   \/ best.match # 0 /\ objects[i].ignore
                   \/ ~AtLeast(o, best.overlap)
                THEN best
                ELSE [best EXCEPT !.overlap = o, !.index = i,
                                  !.match = IF objects[i].ignore THEN -1 ELSE 1]
    IN  FoldLeftDomain(Try, [overlap |-> threshold, index |-> 0, match |-> 0], objects)

\* The loop of _match_image over both sorted lists: 1 a true positive, 0 a false
\* one, -1 neither.
Assign(objects, detections, threshold) ==
    LET Take(m, d) ==
            LET best == Best(objects, m.matched, d.box, threshold)
            IN  [matched |-> IF best.match = 1 THEN m.matched \cup {best.index}
                             ELSE m.matched,
                 results |-> Append(m.results,
                                    [score |-> d.score, match |-> best.match])]
    IN  FoldLeft(Take, [matched |-> {}, results |-> <<>>], detections).results

\* _match_image.
MatchImage(objects, detections, threshold) ==
    Assign(Ordered(objects), ByScore(detections), threshold)

-----------------------------------------------------------------------------
(* Documents.                                                              *)

Ids(items) == [i \in DOMAIN items |-> items[i].id]

\* _unique_items of both documents, and the comparison of their ids.
SameExamples(labels, predictions) ==
    /\ Len(labels) > 0 /\ Len(predictions) = Len(labels)
    /\ IsInjective(Ids(labels)) /\ IsInjective(Ids(predictions))
    /\ ToSet(Ids(labels)) = ToSet(Ids(predictions))

ItemOf(items, id) == items[CHOOSE i \in DOMAIN items : items[i].id = id]

Visible(items, regions) ==
    At(items, {i \in DOMAIN items : ~InIgnoredRegion(items[i].box, regions)})

\* prepared[...] of an image: without what lies in ignored regions.
Prepared(label, predictions) ==
    [objects |-> Visible(label.objects, label.ignored_regions),
     detections |-> ByScore(Visible(ItemOf(predictions, label.id).detections,
                                    label.ignored_regions))]

PreparedAll(labels, predictions) ==
    [i \in DOMAIN labels |-> Prepared(labels[i], predictions)]

\* available_classes.
Available(prepared) ==
    UNION { { o.class : o \in { o \in ToSet(p.objects) : ~o.ignore } } :
            p \in ToSet(prepared) }

OfClass(items, category) == At(items, {i \in DOMAIN items : items[i].class = category})

\* number_of_ground_truths.
Truths(prepared, category) ==
    SumFunction([ i \in DOMAIN prepared |->
        LET objects == OfClass(prepared[i].objects, category)
        IN  Cardinality({k \in DOMAIN objects : ~objects[k].ignore}) ])

\* The cap counts all detections of the image, then the class is selected.
Capped(detections, category, maximum) ==
    OfClass(SubSeq(detections, 1, Least(maximum, Len(detections))), category)

\* matches of all images, ranked.
Matches(prepared, category, threshold, maximum) ==
    ByScore(FlattenSeq([i \in DOMAIN prepared |->
        MatchImage(OfClass(prepared[i].objects, category),
                   Capped(prepared[i].detections, category, maximum), threshold)]))

CountOf(matches, n, kind) == Cardinality({i \in 1 .. n : matches[i].match = kind})

\* max(recall), times number_of_ground_truths.
Found(matches) == CountOf(matches, Len(matches), 1)

\* precision after n matches.
Precision(matches, n) ==
    LET tp == CountOf(matches, n, 1)
    IN  <<tp, Greatest(1, tp + CountOf(matches, n, 0))>>

Higher(f, g) == IF AtLeast(f, g) THEN f ELSE g

\* mpre of _voc_ap, made monotone from the back.
Envelope(matches) ==
    LET n == Len(matches)
        mpre[i \in 1 .. n] ==
            Higher(Precision(matches, i), IF i = n THEN <<0, 1>> ELSE mpre[i + 1])
    IN  mpre

\* _voc_ap, times number_of_ground_truths: the precisions at the steps of recall.
VocAp(matches) ==
    At(Envelope(matches), {i \in DOMAIN matches : matches[i].match = 1})

\* score_detection: the terms of AP and AR, before they are averaged.
ScoreDetection(labels, predictions) ==
    LET prepared == PreparedAll(labels, predictions)
    IN  [ c \in Available(prepared) |->
            [ t \in Thresholds |->
                [ truths |-> Truths(prepared, c),
                  ar |-> [ n \in recall_limits |-> Found(Matches(prepared, c, t, n)) ],
                  ap |-> VocAp(Matches(prepared, c, t, maximum_detections)) ] ] ]

\* score_classification: the number of correct classes.
ScoreClassification(labels, predictions) ==
    Cardinality({ i \in DOMAIN labels :
                    ItemOf(predictions, labels[i].id).class = labels[i].class })

\* score_detection refuses too many detections and labels without a class.
DetectionsValid(labels, predictions) ==
    /\ \A i \in DOMAIN predictions : Len(predictions[i].detections) <= maximum_detections
    /\ Available(PreparedAll(labels, predictions)) # {}
-----------------------------------------------------------------------------
(* Reference definitions, which the functions above are compared with.     *)

\* The pixels of a box that lie in some region.
Covered(box, regions) ==
    { c \in (box.x .. box.x + box.w - 1) \X (box.y .. box.y + box.h - 1) :
        \E i \in DOMAIN regions :
            LET r == regions[i]
            IN  r.x <= c[1] /\ c[1] < r.x + r.w /\ r.y <= c[2] /\ c[2] < r.y + r.h }

\* Results of ranked detections: each takes the free real object it overlaps
\* most, none twice, and one without an object is a false positive unless an
\* ignored object holds it.
IsMatching(objects, ranked, threshold, results) ==
    LET real == { i \in DOMAIN objects : ~objects[i].ignore }
        hits == { j \in DOMAIN ranked : results[j].match = 1 }
        Reaches(j, i) == AtLeast(Overlap(ranked[j].box, objects[i]), threshold)
        Closer(j, i, k) == AtLeast(Overlap(ranked[j].box, objects[i]),
                                   Overlap(ranked[j].box, objects[k]))
    IN  \E g \in [hits -> real] :
            /\ IsInjective(g)
            /\ \A j \in DOMAIN ranked :
                 LET free == { i \in real : /\ Reaches(j, i)
                                           /\ \A h \in hits : h < j => g[h] # i }
                 IN  IF j \in hits
                     THEN g[j] \in free /\ \A i \in free : Closer(j, g[j], i)
                     ELSE /\ free = {}
                          /\ results[j].match =
                               (IF \E i \in DOMAIN objects \ real : Reaches(j, i)
                                THEN -1 ELSE 0)

\* The best precision that is reached with at least r true positives.
BestPrecision(matches, r) ==
    LET late == { n \in DOMAIN matches : CountOf(matches, n, 1) >= r }
    IN  CHOOSE f \in {Precision(matches, n) : n \in late} :
            \A n \in late : AtLeast(f, Precision(matches, n))

SameFraction(f, g) == f[1] * g[2] = g[1] * f[2]

\* The area under the interpolated curve, as its terms.
IsAveragePrecision(matches, terms) ==
    /\ Len(terms) = Found(matches)
    /\ \A r \in DOMAIN terms : SameFraction(terms[r], BestPrecision(matches, r))
=============================================================================
