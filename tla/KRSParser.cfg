\* Every plan of up to three courses, every single damage of its text.
SPECIFICATION Spec
CONSTANTS
    Credits <- MCCredits
    Stray <- MCStray
    MaxCourses = 3
INVARIANTS TypeOK IntactPlanExact DamageStaysLocal AnswerAddsUp
PROPERTY ParseReturns
CHECK_DEADLOCK FALSE
