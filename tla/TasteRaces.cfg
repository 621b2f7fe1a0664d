SPECIFICATION Spec

CONSTANTS
    Movies <- MCMovies
    Genres <- MCGenres
    GenresOf <- MCGenresOf
    MaxScore = 2
    Workers = {w1, w2}
    NoMovie = NoMovie
    NoProfile = NoProfile
    w1 = w1
    w2 = w2

SYMMETRY Symmetry

INVARIANT ProfileOfAccount
INVARIANT ProfileFollowsRatings
INVARIANT NobodyStuck

CHECK_DEADLOCK FALSE
