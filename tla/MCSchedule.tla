------------------------------ MODULE MCSchedule ------------------------------
(* Two families of configurations: every window of a day of six units, with  *)
(* and without a change of the clock, and every use of the blockers.         *)
EXTENDS Schedule

Zones == {[day |-> 1, at |-> 1, by |-> 0],
          [day |-> 1, at |-> 1, by |-> 2],
          [day |-> 1, at |-> 1, by |-> -2]}

Unblocked == [prometheus |-> FALSE, filtered |-> FALSE, filter |-> {},
              filterMatchOnly |-> FALSE, firingOnly |-> FALSE, selectors |-> <<>>]

WindowScenarios ==
    {[zone |-> z, window |-> [days |-> d, start |-> s, end |-> e],
      blockers |-> Unblocked, samples |-> {}, pods |-> {},
      last |-> 6 * DayUnits - 1] :
     z \in Zones, d \in {{0, 1, 2}, {1}}, s \in 0..(DayUnits - 1), e \in 0..(DayUnits - 1)}

AllDay == [days |-> 0..6, start |-> 0, end |-> DayUnits - 1]

Alerts == {[alert |-> "noisy", state |-> "firing", value |-> 1],
           [alert |-> "noisy", state |-> "pending", value |-> 1],
           [alert |-> "grave", state |-> "firing", value |-> 1],
           [alert |-> "grave", state |-> "firing", value |-> 0]}

BlockerScenarios ==
    {[zone |-> [day |-> 1, at |-> 1, by |-> 0], window |-> AllDay,
      blockers |-> [prometheus |-> TRUE, filtered |-> f, filter |-> {"noisy"},
                    filterMatchOnly |-> m, firingOnly |-> o, selectors |-> <<"web", "db">>],
      samples |-> Alerts, pods |-> {"web", "db"}, last |-> 3] :
     f \in BOOLEAN, m \in BOOLEAN, o \in BOOLEAN}

AllScenarios == WindowScenarios \union BlockerScenarios
=============================================================================
