SPECIFICATION Spec
INVARIANTS TypeOK AnswerTellsEffect CountedAsAnswered OneID
