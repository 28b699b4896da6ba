---------------------------- MODULE MCEvaluator -----------------------------
(* Evaluator with two examples, small or too large to accept, on images of  *)
(* 4 x 2 pixels, with labels and answers that overlap, coincide, are        *)
(* ignored or lie in ignored regions.                                       *)
EXTENDS Evaluator, TLC

BothTasks == {"image_classification", "object_detection"}
AllFaults == {"stage", "hook", "helper", "hang", "kill", "data", "client"}
Halves == {<<1, 2>>, <<3, 4>>}
Limits == {1, 2}
SomeSizes == {<<1, 2>>, <<3, 1>>}
Classes == {0, 1}

Box(x, y, w, h) == [x |-> x, y |-> y, w |-> w, h |-> h]
Wide == Box(0, 0, 4, 1)
Left == Box(0, 0, 2, 2)
Most == Box(0, 0, 3, 2)
Right == Box(2, 0, 2, 2)

Detection(box, class, score) == [box |-> box, class |-> class, score |-> score]
Object(box, class, ignore) == [box |-> box, class |-> class, ignore |-> ignore]

SomeDetections ==
    { <<>>,
      <<Detection(Left, 0, 2), Detection(Left, 0, 2)>>,
      <<Detection(Most, 0, 1), Detection(Left, 0, 2)>>,
      <<Detection(Right, 0, 1), Detection(Most, 1, 2), Detection(Left, 0, 1)>>,
      <<Detection(Wide, 1, 2), Detection(Right, 1, 1)>>,
      <<Detection(Left, 0, 1), Detection(Wide, 0, 2), Detection(Most, 0, 2)>>,
      <<Detection(Right, 0, 2), Detection(Right, 1, 2), Detection(Left, 0, 2)>> }

SomeObjects ==
    { <<>>,
      <<Object(Left, 0, FALSE)>>,
      <<Object(Left, 0, FALSE), Object(Most, 0, FALSE)>>,
      <<Object(Most, 0, TRUE), Object(Left, 0, FALSE)>>,
      <<Object(Most, 0, TRUE), Object(Wide, 0, TRUE), Object(Left, 0, FALSE),
        Object(Most, 0, FALSE)>>,
      <<Object(Right, 1, FALSE), Object(Left, 0, TRUE), Object(Most, 0, TRUE),
        Object(Right, 0, FALSE)>> }

SomeRegions == { <<>>, <<Wide>>, <<Box(1, 0, 1, 2), Wide, Box(3, 1, 1, 1)>> }

Label(id, class, objects, regions) ==
    [id |-> id, class |-> class, objects |-> objects, ignored_regions |-> regions]

ClassLabels ==
    { <<Label(a, c, <<>>, <<>>), Label(b, d, <<>>, <<>>)>> :
        a \in {1, 2}, b \in {2, 3}, c \in {0, 1}, d \in {0, 1} }
    \cup { <<Label(1, 0, <<>>, <<>>)>> }

DetectionLabels ==
    { <<Label(1, 0, o, r), Label(2, 0, p, <<>>)>> :
        o \in SomeObjects, p \in SomeObjects, r \in SomeRegions }
    \cup { <<Label(1, 0, o, <<>>), Label(3, 0, <<>>, <<>>)>> : o \in SomeObjects }

SomeLabels ==
    "image_classification" :> ClassLabels @@ "object_detection" :> DetectionLabels
=============================================================================
