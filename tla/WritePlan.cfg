\* Any two planners after one another on one plan.
CONSTANTS
    Originals <- MCOriginals
    Quads <- MCQuads
    Zooms <- MCZooms
    Assignments <- MCAssignments
    MaxPlans = 2
SPECIFICATION Spec
INVARIANTS TypeOK PadHoldsThePlan PlansAreNeverSent
PROPERTIES PlansStayInTheirRecord SummaryShowsTheMap
