SPECIFICATION Spec
CONSTANT MaxFaults = 2
INVARIANTS TypeOK AnswersAsDocumented HonestAnswers  SuccessMeansGone CookiesLive
