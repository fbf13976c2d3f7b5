---------------------------- MODULE MCImportJobs ----------------------------
\* Instances of ImportJobs for TLC: a file of one episode, and one of three that are
\* out of order and repeat a number.
EXTENDS ImportJobs

MCFiles == {<<1>>, <<2, 1, 2>>}

FilesWithLongTitle == {<<1>>, <<1, 2>>}

BothModes == {"writers", "episodes"}

EpisodesOnly == {"episodes"}
=============================================================================
