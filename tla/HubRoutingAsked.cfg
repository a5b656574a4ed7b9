CONSTANTS
    Hub = Hub
    None = None
    k1 = k1
    thread = thread
    todo = todo
    failure = failure
    Keys = {k1}
    Items = {todo, failure}
    Source <- FoundBy
    ReviewOf <- Reviewed
    Again <- Later
    Watched = {Hub}
    MaxSteps = 3
SPECIFICATION Spec
PROPERTIES
    AskedReachesModel
