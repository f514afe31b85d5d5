\* Two admins, two concurrent handlers.
CONSTANTS
    Users = {u1, u2}
    Root = u1
    Handlers = {h1, h2}
    MaxOps = 2
SYMMETRY Symmetry
SPECIFICATION UsersSpec
INVARIANT SomeAdminRemains
