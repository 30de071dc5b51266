---- MODULE MCVideoForm ----
EXTENDS VideoForm

SomeSegments == {1}
SomeParts == {<<1, 0>>, <<1, 1>>}
OtherParts == {<<2, 1>>}
====
