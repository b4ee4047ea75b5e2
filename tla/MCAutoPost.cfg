SPECIFICATION FairSpec
CONSTANTS
    Vacancies = {1, 2}
    Cached = {1}
    Slots = {1}
    MaxPosts = 2
    MaxFaults = 1
    Employer <- MCEmployer
    Group <- MCGroup
    Source <- MCSource
    NoVacancy = NoVacancy
    NoSlot = NoSlot
    NoSchedule = NoSchedule
INVARIANTS
    PostsAreLoggedOnce
PROPERTIES
    DueSlotsClose
